---- MODULE Spec2Model ----
(***************************************************************************)
(* A model of fmfm.core: the FM channel (sim/channel.go) and the MIDI      *)
(* voice controller (controller.go).                                       *)
(*                                                                         *)
(* The operator, the chip's register dispatch and the ymfdata tables are   *)
(* not part of the sources at hand; they are modelled from the design      *)
(* document, over small integers instead of float64.                       *)
(***************************************************************************)
EXTENDS Integers, Sequences, FiniteSets, TLC

VARIABLES
    ch,      \* one sim.Channel, driven directly through its methods
    out,     \* what the last operation returned: the frame of a
             \* Channel.next() or Chip.Next(), <<>> for the others
    calls,   \* the operator.next invocations the last operation made:
             \*   <<operator index 0..3, modIndex, modulator input>>
    ev,      \* the last operation, its arguments and, for setALG, what the
             \* channel held before it: the algorithm and the curr of the
             \* two feedback lines
    slots,   \* Controller.slots
    midi,    \* Controller.midiChannelStates
    chip,    \* the chip behind Controller.registers: channelID -> Channel
    writes,  \* the register writes issued by the last controller event
    now,     \* the clock read by time.Now()
    vin,     \* the arguments (data, velocity) of ymfConvertVelocity
    vout     \* its result

vars == <<ch, out, calls, ev, slots, midi, chip, writes, now, vin, vout>>

chanVars == <<ch, out, calls>>
ctrlVars == <<slots, midi, chip, writes, now>>
velVars == <<vin, vout>>

(***************************************************************************)
(* Bounds of the model.                                                    *)
(***************************************************************************)
\* ymfdata.ChannelCount: the number of chip channels and of controller slots
ChannelCount == 2
\* the number of MIDI channels modelled (16 in Controller.midiChannelStates)
MidiChannelCount == 2
\* the envelope level is 0..MaxLevel instead of a float64 in [0, 1]
MaxLevel == 2
\* the LFO phase accumulator wraps at FracModulus instead of 2^64
FracModulus == 4
\* the clock stops the model when it reaches MaxClock
MaxClock == 7

\* the clock's bound where slots are stolen
MaxStealClock == 11
\* the pitch-bend sensitivity the data-entry steps stop at
MaxSens == 400

(***************************************************************************)
(* Constants of the program.                                               *)
(***************************************************************************)
noModulator == 0

flagSustain == 2
flagVibrato == 4
flagFree == 128

modThresh == 40

ccBankMSB == 0
ccModulation == 1
ccDataEntryHi == 6
ccVolume == 7
ccPan == 10
ccExpression == 11
ccBankLSB == 32
ccDataEntryLo == 38
ccSustainPedal == 64
ccNRPNLo == 98
ccNRPNHi == 99
ccRPNLo == 100
ccRPNHi == 101
ccSoundsOff == 120
ccNotesOff == 123

(***************************************************************************)
(* ymfdata: the tables, over small integers.                               *)
(***************************************************************************)
stageOff == "Off"
stageAttack == "Attack"
stageDecay == "Decay"
stageSustain == "Sustain"
stageRelease == "Release"

\* CarrierMatrix[alg][i], with alg and i counted from 0
CarrierMatrix(alg, i) ==
    LET m == << <<FALSE, TRUE,  FALSE, FALSE>>,
                <<TRUE,  TRUE,  FALSE, FALSE>>,
                <<TRUE,  TRUE,  TRUE,  TRUE >>,
                <<FALSE, FALSE, FALSE, TRUE >>,
                <<FALSE, FALSE, FALSE, TRUE >>,
                <<FALSE, TRUE,  FALSE, TRUE >>,
                <<TRUE,  FALSE, FALSE, TRUE >>,
                <<TRUE,  FALSE, TRUE,  TRUE >> >>
    IN m[alg + 1][i + 1]

\* ModulatorMatrix[alg][i]: the operators that feed another operator
ModulatorMatrix(alg, i) ==
    LET m == << <<TRUE,  FALSE, FALSE, FALSE>>,
                <<FALSE, FALSE, FALSE, FALSE>>,
                <<FALSE, FALSE, FALSE, FALSE>>,
                <<TRUE,  TRUE,  TRUE,  FALSE>>,
                <<TRUE,  TRUE,  TRUE,  FALSE>>,
                <<TRUE,  FALSE, TRUE,  FALSE>>,
                <<FALSE, TRUE,  TRUE,  FALSE>>,
                <<FALSE, TRUE,  FALSE, FALSE>> >>
    IN m[alg + 1][i + 1]

\* one period of the waveform; the phase is an index into it
WaveTable == <<0, 1, -1>>

PhaseLen == Len(WaveTable)

\* the scalar applied to an operator's output before it modulates another
ModulatorMultiplier == 2

\* the LFO phase increment of an LFO index
LFOFrequency(v) == v + 1

\* the LFO phase is cut down to the modulation table index by this shift
ModTableIndexShift == 1

\* VolumeTable[i], i = value >> 2
VolumeTable(i) == i + 1

\* PanTable[pan] = (left, right)
PanTable(pan) == <<127 - pan, pan + 1>>

\* the feedback blend of a chip running at the reference rate, in halves:
\* feedbackBlendCurr = .5, feedbackBlendPrev = 1 - .5
feedbackBlendCurr == 1

feedbackBlendPrev == 1

\* the total-level attenuation: 0x3f silences the operator
tlCoef(tl) == IF tl >= 63 THEN 0 ELSE 1

\* v >> n
Shr(v, n) == v \div (2 ^ n)

(***************************************************************************)
(* sim.operator, from the design document.                                 *)
(***************************************************************************)
newOperator ==
    [stage |-> stageOff, level |-> 0, phase |-> 0, inc |-> 0,
     tl |-> 0, feedbackCoef |-> 0, isModulator |-> FALSE]

\* operator.resetAll: back to the state of construction; the role is the
\* channel's to set
opResetAll(op) == [newOperator EXCEPT !.isModulator = op.isModulator]

\* phaseGenerator.reset
pgReset(op) == [op EXCEPT !.phase = 0]

\* envelopeGenerator.reset
egReset(op) == [op EXCEPT !.stage = stageOff, !.level = 0]

\* operator.keyOn: reset the phase, enter Attack
opKeyOn(op) == [op EXCEPT !.phase = 0, !.stage = stageAttack]

\* operator.keyOff: enter Release, unless the envelope is Off
opKeyOff(op) ==
    IF op.stage = stageOff THEN op ELSE [op EXCEPT !.stage = stageRelease]

\* operator.setFrequency: the phase increment, envelope stage kept
opSetFrequency(op, fnum, block, bo) ==
    [op EXCEPT !.inc = IF fnum = 0 THEN 0 ELSE 1]

\* one tick of the envelope state machine
egNext(op) ==
    CASE op.stage = stageAttack ->
           IF op.level + 1 >= MaxLevel
           THEN [op EXCEPT !.level = MaxLevel, !.stage = stageDecay]
           ELSE [op EXCEPT !.level = op.level + 1]
      [] op.stage = stageDecay ->
           IF op.level - 1 <= 1
           THEN [op EXCEPT !.level = 1, !.stage = stageSustain]
           ELSE [op EXCEPT !.level = op.level - 1]
      [] op.stage = stageRelease ->
           IF op.level - 1 <= 0
           THEN [op EXCEPT !.level = 0, !.stage = stageOff]
           ELSE [op EXCEPT !.level = op.level - 1]
      [] OTHER -> op

\* the sample of an operator whose envelope and phase have advanced
opSample(o, modIn) ==
    [op  |-> o,
     out |-> WaveTable[((o.phase + modIn) % PhaseLen) + 1]
             * o.level * tlCoef(o.tl)]

\* phaseGenerator.next: the phase a tick later
pgNext(e) == [e EXCEPT !.phase = (e.phase + e.inc) % PhaseLen]

\* operator.next(modIndex, modulator): the operator a tick later and its sample
opNext(op, modIndex, modIn) == opSample(pgNext(egNext(op)), modIn)

(***************************************************************************)
(* sim.Channel.                                                            *)
(***************************************************************************)
OpIdx == 1..4

\* apply f to each of the four operators
eachOp(c, f(_)) == [c EXCEPT !.operators = [i \in OpIdx |-> f(c.operators[i])]]

updateFrequency(c) ==
    LET f(op) == opSetFrequency(op, c.fnum, c.block, c.bo) IN eachOp(c, f)

\* the index wrapped into the table instead of clamped
clampPanWrap(pan) == pan % 128

\* the clamp of updatePanCoef
clampPan(pan) == IF pan < 0 THEN 0 ELSE IF 127 < pan THEN 127 ELSE pan

\* the index into ymfdata.PanTable
panIndex(c) == clampPan(c.chpan + (c.panpot - 15) * 4)

\* updatePanCoef past the index
setPanCoef(c, pan) ==
    [c EXCEPT !.panCoefL = PanTable(pan)[1], !.panCoefR = PanTable(pan)[2]]

updatePanCoef(c) == setPanCoef(c, panIndex(c))

updateAttenuation(c) ==
    [c EXCEPT !.attenuationCoef = VolumeTable(Shr(c.volume, 2))
                                  * VolumeTable(Shr(c.expression, 2))
                                  * VolumeTable(Shr(c.velocity, 2))]

setLFO(c, v) == [c EXCEPT !.lfoFrequency = LFOFrequency(v)]

\* what reset does to each operator
opReset(op) == egReset(pgReset(op))

\* reset leaving the outputs of the feedback lines as they are
resetKeepOut(c) ==
    eachOp([c EXCEPT !.modIndexFrac64 = 0,
                     !.feedback1Prev = 0, !.feedback1Curr = 0,
                     !.feedback3Prev = 0, !.feedback3Curr = 0],
           opReset)

reset(c) ==
    eachOp([c EXCEPT !.modIndexFrac64 = 0,
                     !.feedback1Prev = 0, !.feedback1Curr = 0,
                     !.feedback3Prev = 0, !.feedback3Curr = 0,
                     !.feedbackOut1 = 0, !.feedbackOut3 = 0],
           opReset)

resetAll(c) ==
    eachOp(updateAttenuation(updatePanCoef(setLFO(
               [c EXCEPT !.midiChannelID = -1, !.fnum = 0, !.kon = 0,
                         !.block = 0, !.alg = 0, !.panpot = 15, !.chpan = 64,
                         !.volume = 100, !.expression = 127, !.velocity = 0,
                         !.bo = 1], 0))),
           opResetAll)

newChannel(channelID) ==
    resetAll([channelID |-> channelID, midiChannelID |-> 0,
              fnum |-> 0, kon |-> 0, block |-> 0, alg |-> 0, panpot |-> 0,
              chpan |-> 0, volume |-> 0, expression |-> 0, velocity |-> 0,
              bo |-> 0,
              feedback1Prev |-> 0, feedback1Curr |-> 0,
              feedback3Prev |-> 0, feedback3Curr |-> 0,
              feedbackOut1 |-> 0, feedbackOut3 |-> 0,
              attenuationCoef |-> 0, modIndexFrac64 |-> 0, lfoFrequency |-> 0,
              panCoefL |-> 0, panCoefR |-> 0,
              operators |-> [i \in OpIdx |-> newOperator]])

isOff(c) ==
    \A i \in OpIdx :
        CarrierMatrix(c.alg, i - 1) => c.operators[i].stage = stageOff

\* keyOn without the test of kon
keyOnAlways(c) == [eachOp(c, opKeyOn) EXCEPT !.kon = 1]

keyOn(c) ==
    IF c.kon # 0 THEN c ELSE [eachOp(c, opKeyOn) EXCEPT !.kon = 1]

keyOff(c) ==
    IF c.kon = 0 THEN c ELSE [eachOp(c, opKeyOff) EXCEPT !.kon = 0]

\* resetAllIfOff testing every operator, not the carriers alone
resetAllIfAllOff(c) ==
    IF \A i \in OpIdx : c.operators[i].stage = stageOff
    THEN resetAll(c) ELSE c

\* the second statement of the v == 0 arm of setKON
resetAllIfOff(c) == IF isOff(c) THEN resetAll(c) ELSE c

setKON(c, v) == IF v = 0 THEN resetAllIfOff(keyOff(c)) ELSE keyOn(c)

setBLOCK(c, v) == updateFrequency([c EXCEPT !.block = v])

setFNUM(c, v) == updateFrequency([c EXCEPT !.fnum = v])

setBO(c, v) == updateFrequency([c EXCEPT !.bo = v])

\* setALG past its first statement
setALGTail(c, v) ==
    [c EXCEPT !.alg = v,
              !.feedback1Prev = 0, !.feedback1Curr = 0,
              !.feedback3Prev = 0, !.feedback3Curr = 0,
              !.operators =
                  [i \in OpIdx |-> [c.operators[i] EXCEPT
                                     !.isModulator = ModulatorMatrix(v, i - 1)]]]

\* setALG calling reset whatever the algorithm was
setALGAlwaysReset(c, v) == setALGTail(reset(c), v)

setALG(c, v) == setALGTail(IF c.alg # v THEN reset(c) ELSE c, v)

setPANPOT(c, v) == updatePanCoef([c EXCEPT !.panpot = v])

setCHPAN(c, v) == updatePanCoef([c EXCEPT !.chpan = v])

setVOLUME(c, v) == updateAttenuation([c EXCEPT !.volume = v])

setEXPRESSION(c, v) == updateAttenuation([c EXCEPT !.expression = v])

setVELOCITY(c, v) == updateAttenuation([c EXCEPT !.velocity = v])

\* the envelope stage of operator i (0..3) of channel c
stageOf(c, i) == c.operators[i + 1].stage

\* nextExits with the arm of algorithm 0 testing op3 in place of op2
nextExitsOp3(c) ==
    CASE c.alg = 0 -> stageOf(c, 2) = stageOff
      [] c.alg = 1 -> stageOf(c, 0) = stageOff /\ stageOf(c, 1) = stageOff
      [] c.alg = 2 -> /\ stageOf(c, 0) = stageOff /\ stageOf(c, 1) = stageOff
                      /\ stageOf(c, 2) = stageOff /\ stageOf(c, 3) = stageOff
      [] c.alg = 3 -> stageOf(c, 3) = stageOff
      [] c.alg = 4 -> stageOf(c, 3) = stageOff
      [] c.alg = 5 -> stageOf(c, 1) = stageOff /\ stageOf(c, 3) = stageOff
      [] c.alg = 6 -> stageOf(c, 0) = stageOff /\ stageOf(c, 3) = stageOff
      [] c.alg = 7 -> /\ stageOf(c, 0) = stageOff /\ stageOf(c, 2) = stageOff
                      /\ stageOf(c, 3) = stageOff
      [] OTHER -> FALSE

\* the early exit of each arm of the switch in Channel.next
nextExits(c) ==
    CASE c.alg = 0 -> stageOf(c, 1) = stageOff
      [] c.alg = 1 -> stageOf(c, 0) = stageOff /\ stageOf(c, 1) = stageOff
      [] c.alg = 2 -> /\ stageOf(c, 0) = stageOff /\ stageOf(c, 1) = stageOff
                      /\ stageOf(c, 2) = stageOff /\ stageOf(c, 3) = stageOff
      [] c.alg = 3 -> stageOf(c, 3) = stageOff
      [] c.alg = 4 -> stageOf(c, 3) = stageOff
      [] c.alg = 5 -> stageOf(c, 1) = stageOff /\ stageOf(c, 3) = stageOff
      [] c.alg = 6 -> stageOf(c, 0) = stageOff /\ stageOf(c, 3) = stageOff
      [] c.alg = 7 -> /\ stageOf(c, 0) = stageOff /\ stageOf(c, 2) = stageOff
                      /\ stageOf(c, 3) = stageOff
      [] OTHER -> FALSE

\* the modulator argument of an operator evaluation in Channel.next:
\* ch.feedbackOut1, ch.feedbackOut3, noModulator, or the sum of the outputs
\* of some operators * ModulatorMultiplier
fb1In == [kind |-> "fb1", ops |-> {}]

fb3In == [kind |-> "fb3", ops |-> {}]

noIn == [kind |-> "no", ops |-> {}]

opsIn(set) == [kind |-> "ops", ops |-> set]

\* nextEvals with operator 4 of algorithm 3 fed by operator 3 alone
nextEvalsThin(alg) ==
    CASE alg = 0 -> << <<0, fb1In>>, <<1, opsIn({0})>> >>
      [] alg = 1 -> << <<0, fb1In>>, <<1, noIn>> >>
      [] alg = 2 -> << <<0, fb1In>>, <<1, noIn>>, <<2, fb3In>>, <<3, noIn>> >>
      [] alg = 3 -> << <<0, fb1In>>, <<1, noIn>>, <<2, opsIn({1})>>, <<3, opsIn({2})>> >>
      [] alg = 4 -> << <<0, fb1In>>, <<1, opsIn({0})>>, <<2, opsIn({1})>>, <<3, opsIn({2})>> >>
      [] alg = 5 -> << <<0, fb1In>>, <<1, opsIn({0})>>, <<2, fb3In>>, <<3, opsIn({2})>> >>
      [] alg = 6 -> << <<0, fb1In>>, <<1, noIn>>, <<2, opsIn({1})>>, <<3, opsIn({2})>> >>
      [] alg = 7 -> << <<0, fb1In>>, <<1, noIn>>, <<2, opsIn({1})>>, <<3, noIn>> >>
      [] OTHER -> << >>

\* The arms of the switch in Channel.next, past the early exit, statement by
\* statement: the operator evaluated (0..3) and its modulator argument
nextEvals(alg) ==
    CASE alg = 0 -> << <<0, fb1In>>, <<1, opsIn({0})>> >>
      [] alg = 1 -> << <<0, fb1In>>, <<1, noIn>> >>
      [] alg = 2 -> << <<0, fb1In>>, <<1, noIn>>, <<2, fb3In>>, <<3, noIn>> >>
      [] alg = 3 -> << <<0, fb1In>>, <<1, noIn>>, <<2, opsIn({1})>>, <<3, opsIn({0, 2})>> >>
      [] alg = 4 -> << <<0, fb1In>>, <<1, opsIn({0})>>, <<2, opsIn({1})>>, <<3, opsIn({2})>> >>
      [] alg = 5 -> << <<0, fb1In>>, <<1, opsIn({0})>>, <<2, fb3In>>, <<3, opsIn({2})>> >>
      [] alg = 6 -> << <<0, fb1In>>, <<1, noIn>>, <<2, opsIn({1})>>, <<3, opsIn({2})>> >>
      [] alg = 7 -> << <<0, fb1In>>, <<1, noIn>>, <<2, opsIn({1})>>, <<3, noIn>> >>
      [] OTHER -> << >>

\* the operators whose outputs each arm adds up to result
nextResultOps(alg) ==
    CASE alg = 0 -> {1}
      [] alg = 1 -> {0, 1}
      [] alg = 2 -> {0, 1, 2, 3}
      [] alg = 3 -> {3}
      [] alg = 4 -> {3}
      [] alg = 5 -> {1, 3}
      [] alg = 6 -> {0, 3}
      [] alg = 7 -> {0, 2, 3}
      [] OTHER -> {}

\* the sum of op1out..op4out (outs) over the operators in set
RECURSIVE sumOuts(_, _)
sumOuts(outs, set) ==
    IF set = {} THEN 0
    ELSE LET i == CHOOSE j \in set : TRUE
         IN outs[i + 1] + sumOuts(outs, set \ {i})

\* the modulator argument of an evaluation
modInput(c, outs, src) ==
    CASE src.kind = "fb1" -> c.feedbackOut1
      [] src.kind = "fb3" -> c.feedbackOut3
      [] src.kind = "no" -> noModulator
      [] OTHER -> sumOuts(outs, src.ops) * ModulatorMultiplier

\* one statement opNout = opN.next(modIndex, modIn): R holds the operators,
\* op1out..op4out and the evaluations made so far
evalStore(R, i, modIndex, modIn, r) ==
    [ops   |-> [R.ops EXCEPT ![i + 1] = r.op],
     outs  |-> [R.outs EXCEPT ![i + 1] = r.out],
     calls |-> Append(R.calls, <<i, modIndex, modIn>>)]

evalWith(R, i, modIndex, modIn) ==
    evalStore(R, i, modIndex, modIn, opNext(R.ops[i + 1], modIndex, modIn))

RECURSIVE evalFrom(_, _, _, _, _)
evalFrom(c, R, modIndex, evals, k) ==
    IF k > Len(evals) THEN R
    ELSE evalFrom(c,
                  evalWith(R, evals[k][1], modIndex,
                           modInput(c, R.outs, evals[k][2])),
                  modIndex, evals, k + 1)

\* the arm of channel c's algorithm: op1out..op4out start at 0
nextRoute(c, modIndex) ==
    evalFrom(c, [ops |-> c.operators, outs |-> <<0, 0, 0, 0>>, calls |-> <<>>],
             modIndex, nextEvals(c.alg), 1)

\* the two feedback lines after the switch
feedback1(c, op1out) ==
    IF c.operators[1].feedbackCoef # 0
    THEN [c EXCEPT
            !.feedback1Prev = c.feedback1Curr,
            !.feedback1Curr = op1out * c.operators[1].feedbackCoef,
            !.feedbackOut1 = c.feedback1Curr * feedbackBlendPrev
                             + op1out * c.operators[1].feedbackCoef
                               * feedbackBlendCurr]
    ELSE c

feedback3(c, op3out) ==
    IF c.operators[3].feedbackCoef # 0
    THEN [c EXCEPT
            !.feedback3Prev = c.feedback3Curr,
            !.feedback3Curr = op3out * c.operators[3].feedbackCoef,
            !.feedbackOut3 = c.feedback3Curr * feedbackBlendPrev
                             + op3out * c.operators[3].feedbackCoef
                               * feedbackBlendCurr]
    ELSE c

\* the last two statements of Channel.next
nextFrame(c, result, evals) ==
    [ch |-> c,
     out |-> <<result * c.attenuationCoef * c.panCoefL,
               result * c.attenuationCoef * c.panCoefR>>,
     calls |-> evals, result |-> result]

\* Channel.next from the switch on, the operators evaluated
nextFinish(c, R) ==
    nextFrame(feedback3(feedback1([c EXCEPT !.operators = R.ops], R.outs[1]),
                        R.outs[3]),
              sumOuts(R.outs, nextResultOps(c.alg)), R.calls)

\* Channel.next from the switch on
nextSwitch(c, modIndex) ==
    IF nextExits(c)
    THEN [ch |-> c, out |-> <<0, 0>>, calls |-> <<>>, result |-> 0]
    ELSE nextFinish(c, nextRoute(c, modIndex))

\* the LFO statement of Channel.next
lfoAdvance(c) ==
    [c EXCEPT !.modIndexFrac64 =
                  (c.modIndexFrac64 + c.lfoFrequency) % FracModulus]

\* next taking modIndex from the phase already advanced
nextAdvanced(c) ==
    nextSwitch(lfoAdvance(c),
               Shr(lfoAdvance(c).modIndexFrac64, ModTableIndexShift))

\* Channel.next: the channel a tick later, the stereo frame it returns and
\* the operator evaluations it made
next(c) ==
    nextSwitch(lfoAdvance(c), Shr(c.modIndexFrac64, ModTableIndexShift))

(***************************************************************************)
(* The chip's register dispatch on one channel, from the design document.  *)
(***************************************************************************)
\* Chip.WriteOperator(channelID, opIndex, reg, v) on the channel: the total
\* level and the feedback are the registers the model's operator reads
chanWriteOperator(c, i, reg, v) ==
    CASE reg = "TL" -> [c EXCEPT !.operators[i + 1].tl = v]
      [] reg = "FB" -> [c EXCEPT !.operators[i + 1].feedbackCoef = v]
      [] OTHER -> c

\* Chip.WriteTL(channelID, opIndex, carrierTL, modulatorTL) on the channel
chanWriteTL(c, i, tlCarrier, tlModulator) ==
    [c EXCEPT !.operators[i + 1].tl =
        IF CarrierMatrix(c.alg, i) THEN tlCarrier ELSE tlModulator]

\* Chip.WriteChannel(channelID, reg, v) on the channel
chanWriteChannel(c, reg, v) ==
    CASE reg = "KON" -> setKON(c, v)
      [] reg = "BLOCK" -> setBLOCK(c, v)
      [] reg = "FNUM" -> setFNUM(c, v)
      [] reg = "ALG" -> setALG(c, v)
      [] reg = "LFO" -> setLFO(c, v)
      [] reg = "PANPOT" -> setPANPOT(c, v)
      [] reg = "CHPAN" -> setCHPAN(c, v)
      [] reg = "VOLUME" -> setVOLUME(c, v)
      [] reg = "EXPRESSION" -> setEXPRESSION(c, v)
      [] reg = "BO" -> setBO(c, v)
      [] reg = "VELOCITY" -> setVELOCITY(c, v)
      [] OTHER -> c

(***************************************************************************)
(* The channel driven through its methods.                                 *)
(***************************************************************************)
Algs == 0..7

InitChan ==
    /\ ch = newChannel(0)
    /\ out = <<>>
    /\ calls = <<>>

ChSetALG(v) ==
    /\ ch' = setALG(ch, v)
    /\ ev' = [op |-> "setALG", a |-> <<v>>,
              was |-> <<ch.alg, ch.feedback1Curr, ch.feedback3Curr>>]
    /\ out' = <<>> /\ calls' = <<>>

ChSetKON(v) ==
    /\ ch' = setKON(ch, v)
    /\ ev' = [op |-> "setKON", a |-> <<v>>, was |-> <<ch.alg, ch.volume>>]
    /\ out' = <<>> /\ calls' = <<>>

ChSetFNUM(v) ==
    /\ ch' = setFNUM(ch, v)
    /\ ev' = [op |-> "setFNUM", a |-> <<v>>, was |-> <<>>]
    /\ out' = <<>> /\ calls' = <<>>

ChSetFB(i, v) ==
    /\ ch' = chanWriteOperator(ch, i, "FB", v)
    /\ ev' = [op |-> "setFB", a |-> <<i, v>>, was |-> <<>>]
    /\ out' = <<>> /\ calls' = <<>>

ChSetCHPAN(v) ==
    /\ ch' = setCHPAN(ch, v)
    /\ ev' = [op |-> "setCHPAN", a |-> <<v>>, was |-> <<>>]
    /\ out' = <<>> /\ calls' = <<>>

ChSetPANPOT(v) ==
    /\ ch' = setPANPOT(ch, v)
    /\ ev' = [op |-> "setPANPOT", a |-> <<v>>, was |-> <<>>]
    /\ out' = <<>> /\ calls' = <<>>

\* Chip.WriteChannel on this channel
ChWriteChannel(reg, v) ==
    /\ ch' = chanWriteChannel(ch, reg, v)
    /\ ev' = [op |-> "WriteChannel", a |-> <<reg, v>>, was |-> <<>>]
    /\ out' = <<>> /\ calls' = <<>>

ChNextTo(r) ==
    /\ ch' = r.ch
    /\ out' = r.out
    /\ calls' = r.calls
    /\ ev' = [op |-> "next", a |-> <<>>, was |-> <<>>]

ChNext == ChNextTo(next(ch))

(***************************************************************************)
(* controller.go: the state of the Controller and its register writes.     *)
(***************************************************************************)
SlotIDs == 0..(ChannelCount - 1)

MidiChs == 0..(MidiChannelCount - 1)

\* the voice library handed to NewController: an FM voice at program 0, a
\* voice of another type at program 1 and an FM drum voice in bank 125
opParams(tl, fb) ==
    [Eam |-> 0, Evb |-> 0, Dam |-> 0, Dvb |-> 0, Dt |-> 0, Ksl |-> 1,
     Ksr |-> 0, Ws |-> 0, Multi |-> 1, Fb |-> fb, Ar |-> 15, Dr |-> 4,
     Sl |-> 2, Sr |-> 0, Rr |-> 7, Tl |-> tl, Xof |-> 0]

libraries ==
    << [Programs |-> <<
          [BankMsb |-> 0, BankLsb |-> 0, Pc |-> 0, DrumNote |-> 0,
           VoiceType |-> "FM",
           FmVoice |-> [DrumKey |-> 0, Alg |-> 4, Lfo |-> 0, Panpot |-> 15,
                        Bo |-> 1,
                        Operators |-> <<opParams(10, 1), opParams(10, 0),
                                        opParams(10, 0), opParams(0, 0)>>]],
          [BankMsb |-> 0, BankLsb |-> 0, Pc |-> 1, DrumNote |-> 0,
           VoiceType |-> "PCM",
           FmVoice |-> [DrumKey |-> 0, Alg |-> 0, Lfo |-> 0, Panpot |-> 15,
                        Bo |-> 1,
                        Operators |-> <<opParams(0, 0), opParams(0, 0),
                                        opParams(0, 0), opParams(0, 0)>>]],
          [BankMsb |-> 125, BankLsb |-> 0, Pc |-> 1, DrumNote |-> 61,
           VoiceType |-> "FM",
           FmVoice |-> [DrumKey |-> 48, Alg |-> 1, Lfo |-> 0, Panpot |-> 15,
                        Bo |-> 1,
                        Operators |-> <<opParams(0, 0), opParams(4, 0),
                                        opParams(0, 0), opParams(0, 0)>>]]
       >>] >>

\* a *smaf.VM35VoicePC is <<library, program>>, both counted from 1; nil is <<>>
nil == <<>>

instrOf(ref) == libraries[ref[1]].Programs[ref[2]]

newSlot ==
    [midiChannel |-> 0, note |-> 0, realnote |-> 0, flags |-> {},
     finetune |-> 0, pitch |-> 0, velocity |-> 0, instrument |-> nil,
     time |-> 0]

newMidiChannelState ==
    [bankLSB |-> 0, bankMSB |-> 0, pc |-> 0, volume |-> 0, expression |-> 0,
     pan |-> 0, pitch |-> 0, sustain |-> 0, modulation |-> 0,
     pitchSens |-> 0, rpn |-> 0]

\* NewController, with a chip of ChannelCount channels behind the registers;
\* the state S the handlers below work on
NewController ==
    [slots  |-> [i \in SlotIDs |-> newSlot],
     midi   |-> [m \in MidiChs |-> newMidiChannelState],
     chip   |-> [c \in SlotIDs |-> newChannel(c)],
     writes |-> <<>>,
     now    |-> 0]

uint8(v) == v % 256

uint16(v) == v % 65536

int8(v) == ((v + 128) % 256) - 128

\* the quotient truncated toward zero, as Go's / on int and int(float64)
TruncDiv(n, d) == IF n >= 0 THEN n \div d ELSE -((-n) \div d)

\* time.Now(): the clock moves with every reading
timeNow(S) == [S EXCEPT !.now = @ + 1]

\* registers.WriteChannel(channelID, reg, v)
WriteChannel(S, channelID, reg, v) ==
    [S EXCEPT !.writes = Append(@, <<"ch", channelID, reg, v>>),
              !.chip[channelID] = chanWriteChannel(@, reg, v)]

\* registers.WriteTL(channelID, opIndex, tlCarrier, tlModulator)
WriteTL(S, channelID, opIndex, tlCarrier, tlModulator) ==
    [S EXCEPT !.writes = Append(@, <<"tl", channelID, opIndex,
                                     tlCarrier, tlModulator>>),
              !.chip[channelID] = chanWriteTL(@, opIndex, tlCarrier,
                                              tlModulator)]

\* registers.WriteOperator(channelID, w[1], w[2], w[3]) for each w of ws in
\* turn, on the channel
RECURSIVE chanWriteOperators(_, _, _)
chanWriteOperators(c, ws, k) ==
    IF k > Len(ws) THEN c
    ELSE chanWriteOperators(
             chanWriteOperator(c, ws[k][1], ws[k][2], ws[k][3]), ws, k + 1)

\* registers.WriteOperator(channelID, w[1], w[2], w[3]) for each w of ws in
\* turn
WriteOperators(S, channelID, ws) ==
    [S EXCEPT !.writes = @ \o [k \in 1..Len(ws) |->
                                 <<"op", channelID, ws[k][1], ws[k][2],
                                   ws[k][3]>>],
              !.chip[channelID] = chanWriteOperators(@, ws, 1)]

\* the operators ymfWriteSlotEachOps and ymfWriteSlotAllOps write, in order
slotOps == <<0, 1, 2, 3>>

ymfWriteSlotEachOps(S, regbase, slotID, data1, data2, data3, data4) ==
    WriteOperators(S, slotID,
        [k \in 1..Len(slotOps) |->
            <<slotOps[k], regbase, <<data1, data2, data3, data4>>[k]>>])

\* ymfWriteSlotAllOps stopping short of the last operator
ymfWriteSlotFirstOps(S, regbase, slotID, data) ==
    WriteOperators(S, slotID,
        [k \in 1..(Len(slotOps) - 1) |-> <<slotOps[k], regbase, data>>])

ymfWriteSlotAllOps(S, regbase, slotID, data) ==
    WriteOperators(S, slotID,
        [k \in 1..Len(slotOps) |-> <<slotOps[k], regbase, data>>])

(***************************************************************************)
(* writeFrequency.  float64 is replaced by integers: 2^(r/384), r the      *)
(* position in the octave in 1/32 semitones, comes from a table scaled by  *)
(* 2^16.                                                                   *)
(***************************************************************************)
\* ymfdata.A3Note
A3Note == 57

\* ymfdata.A3Freq * ymfdata.FNUMCoef, rounded
A3FreqFNUM == 2403

Pow2Frac == <<
    65536, 65654, 65773, 65892, 66011, 66130, 66250, 66369, 66489, 66609, 66730, 66850,
    66971, 67092, 67213, 67335, 67456, 67578, 67700, 67823, 67945, 68068, 68191, 68314,
    68438, 68561, 68685, 68809, 68933, 69058, 69183, 69308, 69433, 69558, 69684, 69810,
    69936, 70062, 70189, 70316, 70443, 70570, 70698, 70825, 70953, 71082, 71210, 71339,
    71468, 71597, 71726, 71856, 71985, 72115, 72246, 72376, 72507, 72638, 72769, 72901,
    73032, 73164, 73297, 73429, 73562, 73695, 73828, 73961, 74095, 74229, 74363, 74497,
    74632, 74766, 74902, 75037, 75172, 75308, 75444, 75581, 75717, 75854, 75991, 76128,
    76266, 76404, 76542, 76680, 76819, 76957, 77096, 77236, 77375, 77515, 77655, 77795,
    77936, 78077, 78218, 78359, 78501, 78642, 78785, 78927, 79069, 79212, 79355, 79499,
    79642, 79786, 79930, 80075, 80220, 80365, 80510, 80655, 80801, 80947, 81093, 81240,
    81386, 81533, 81681, 81828, 81976, 82124, 82273, 82421, 82570, 82719, 82869, 83019,
    83169, 83319, 83469, 83620, 83771, 83923, 84074, 84226, 84378, 84531, 84683, 84836,
    84990, 85143, 85297, 85451, 85606, 85760, 85915, 86070, 86226, 86382, 86538, 86694,
    86851, 87008, 87165, 87322, 87480, 87638, 87796, 87955, 88114, 88273, 88433, 88592,
    88752, 88913, 89073, 89234, 89396, 89557, 89719, 89881, 90043, 90206, 90369, 90532,
    90696, 90860, 91024, 91188, 91353, 91518, 91684, 91849, 92015, 92181, 92348, 92515,
    92682, 92849, 93017, 93185, 93354, 93522, 93691, 93860, 94030, 94200, 94370, 94541,
    94711, 94882, 95054, 95226, 95398, 95570, 95743, 95916, 96089, 96263, 96436, 96611,
    96785, 96960, 97135, 97311, 97487, 97663, 97839, 98016, 98193, 98370, 98548, 98726,
    98905, 99083, 99262, 99442, 99621, 99801, 99982, 100162, 100343, 100524, 100706, 100888,
    101070, 101253, 101436, 101619, 101803, 101987, 102171, 102356, 102540, 102726, 102911, 103097,
    103283, 103470, 103657, 103844, 104032, 104220, 104408, 104597, 104786, 104975, 105165, 105355,
    105545, 105736, 105927, 106118, 106310, 106502, 106694, 106887, 107080, 107274, 107468, 107662,
    107856, 108051, 108246, 108442, 108638, 108834, 109031, 109228, 109425, 109623, 109821, 110019,
    110218, 110417, 110617, 110816, 111017, 111217, 111418, 111619, 111821, 112023, 112226, 112428,
    112631, 112835, 113039, 113243, 113448, 113653, 113858, 114064, 114270, 114476, 114683, 114890,
    115098, 115306, 115514, 115723, 115932, 116141, 116351, 116561, 116772, 116983, 117194, 117406,
    117618, 117831, 118043, 118257, 118470, 118684, 118899, 119114, 119329, 119544, 119760, 119977,
    120194, 120411, 120628, 120846, 121065, 121283, 121502, 121722, 121942, 122162, 122383, 122604,
    122825, 123047, 123270, 123492, 123715, 123939, 124163, 124387, 124612, 124837, 125063, 125289,
    125515, 125742, 125969, 126197, 126425, 126653, 126882, 127111, 127341, 127571, 127801, 128032,
    128263, 128495, 128727, 128960, 129193, 129426, 129660, 129894, 130129, 130364, 130600, 130836
    >>

\* int(freq * ymfdata.FNUMCoef) for freq = A3Freq * 2^(n/12),
\* n = (note - A3Note) + (pitch - 64) / 32
freqFNUM(note, pitch) ==
    LET k == 32 * (note - A3Note) + (pitch - 64)
        r == k % 384
        q == (k - r) \div 384
        m == A3FreqFNUM * Pow2Frac[r + 1]
    IN IF q >= 0 THEN (m * (2 ^ q)) \div 65536
       ELSE IF q < -30 THEN 0
       ELSE m \div (65536 * (2 ^ (-q)))

\* v >> uint(n) on a non-negative int: uint of a negative n is a count past
\* the width, which shifts everything out
ShrUint(v, n) == IF n < 0 \/ n > 62 THEN 0 ELSE Shr(v, n)

\* the loop "for 1024 < fnum { block++; fnum >>= 1 }"
RECURSIVE renorm(_, _)
renorm(fnum, block) ==
    IF 1024 < fnum THEN renorm(Shr(fnum, 1), block + 1)
    ELSE [fnum |-> fnum, block |-> block]

\* the clamps of block in writeFrequency
blockMax(block) == IF 7 < block THEN 7 ELSE block

blockRange(block) == IF block < 0 THEN 0 ELSE blockMax(block)

\* writeFrequency from the shift of fnum on
fnumShift(fnum, block) ==
    IF fnum < 0 THEN [fnum |-> 0, block |-> block] ELSE renorm(fnum, block)

fnumFrom(freq, block) == fnumShift(ShrUint(freq, block - 1), block)

fnumClamp(n) == [fnum |-> n.fnum, block |-> blockRange(n.block)]

\* the FNUM and BLOCK that writeFrequency writes
fnumBlock(note, pitch) ==
    fnumClamp(fnumFrom(freqFNUM(note, pitch), blockMax(TruncDiv(note, 12))))

\* the three register writes of writeFrequency
writeFnumBlock(S, slotID, fb, keyon) ==
    WriteChannel(
        WriteChannel(WriteChannel(S, slotID, "FNUM", fb.fnum),
                     slotID, "BLOCK", fb.block),
        slotID, "KON", IF keyon THEN 1 ELSE 0)

writeFrequency(S, slotID, note, pitch, keyon) ==
    writeFnumBlock(S, slotID, fnumBlock(note, pitch), keyon)

(***************************************************************************)
(* controller.go: instruments and slots.                                   *)
(***************************************************************************)
bool2int(b) == IF b THEN 1 ELSE 0

velocitytable == <<
    0, 1, 3, 5, 6, 8, 10, 11,
    13, 14, 16, 17, 19, 20, 22, 23,
    25, 26, 27, 29, 30, 32, 33, 34,
    36, 37, 39, 41, 43, 45, 47, 49,
    50, 52, 54, 55, 57, 59, 60, 61,
    63, 64, 66, 67, 68, 69, 71, 72,
    73, 74, 75, 76, 77, 79, 80, 81,
    82, 83, 84, 84, 85, 86, 87, 88,
    89, 90, 91, 92, 92, 93, 94, 95,
    96, 96, 97, 98, 99, 99, 100, 101,
    101, 102, 103, 103, 104, 105, 105, 106,
    107, 107, 108, 109, 109, 110, 110, 111,
    112, 112, 113, 113, 114, 114, 115, 115,
    116, 117, 117, 118, 118, 119, 119, 120,
    120, 121, 121, 122, 122, 123, 123, 123,
    124, 124, 125, 125, 126, 126, 127, 127
    >>

\* ymfConvertVelocity without the subtraction from 0x3f
ymfConvertVelocityRaw(data, velocity) ==
    Shr((63 - data) * velocitytable[velocity + 1], 7)

ymfConvertVelocity(data, velocity) ==
    LET r == velocitytable[velocity + 1]
    IN 63 - Shr((63 - data) * r, 7)

\* the body of the loop of ymfWriteVelocity
writeVelocityTL(S, slotID, velocity, i, tlModulator) ==
    WriteTL(S, slotID, i, ymfConvertVelocity(tlModulator, velocity),
            tlModulator)

RECURSIVE ymfWriteVelocityFrom(_, _, _, _, _)
ymfWriteVelocityFrom(S, slotID, velocity, instr, i) ==
    IF i > 3 THEN S
    ELSE ymfWriteVelocityFrom(
             writeVelocityTL(S, slotID, velocity, i,
                             instr.FmVoice.Operators[i + 1].Tl),
             slotID, velocity, instr, i + 1)

ymfWriteVelocity(S, slotID, velocity, instr) ==
    ymfWriteVelocityFrom(S, slotID, velocity, instr, 0)

\* the registers ymfWriteInstrument writes for each operator, in order
instrOpRegs ==
    << <<"EAM", "Eam">>, <<"EVB", "Evb">>, <<"DAM", "Dam">>,
       <<"DVB", "Dvb">>, <<"DT", "Dt">>, <<"KSL", "Ksl">>,
       <<"KSR", "Ksr">>, <<"WS", "Ws">>, <<"MULT", "Multi">>,
       <<"FB", "Fb">>, <<"AR", "Ar">>, <<"DR", "Dr">>, <<"SL", "Sl">>,
       <<"SR", "Sr">>, <<"RR", "Rr">>, <<"TL", "Tl">>, <<"XOF", "Xof">> >>

\* the body of the loop of ymfWriteInstrument for operator i with parameters o
writeInstrumentOp(S, slotID, i, o) ==
    WriteOperators(S, slotID,
        [k \in 1..Len(instrOpRegs) |->
            <<i, instrOpRegs[k][1], o[instrOpRegs[k][2]]>>])

RECURSIVE ymfWriteInstrumentFrom(_, _, _, _)
ymfWriteInstrumentFrom(S, slotID, instr, i) ==
    IF i > 3 THEN S
    ELSE ymfWriteInstrumentFrom(
             writeInstrumentOp(S, slotID, i, instr.FmVoice.Operators[i + 1]),
             slotID, instr, i + 1)

ymfWriteInstrument(S, slotID, instr) ==
    WriteChannel(
      WriteChannel(
        WriteChannel(
          WriteChannel(
            ymfWriteInstrumentFrom(ymfWriteSlotAllOps(S, "TL", slotID, 63),
                                   slotID, instr, 0),
            slotID, "ALG", instr.FmVoice.Alg),
          slotID, "LFO", instr.FmVoice.Lfo),
        slotID, "PANPOT", instr.FmVoice.Panpot),
      slotID, "BO", instr.FmVoice.Bo)

\* the argument of writeModulation for operator i (1..4) of instr
evbOf(instr, i, state) ==
    bool2int(instr.FmVoice.Operators[i].Evb # 0 \/ state)

writeModulation(S, slotID, instr, state) ==
    ymfWriteSlotEachOps(S, "EVB", slotID,
                        evbOf(instr, 1, state), evbOf(instr, 2, state),
                        evbOf(instr, 3, state), evbOf(instr, 4, state))

\* the body of the loop of ymfShutup
ymfShutupOne(S, i) ==
    WriteChannel(
      ymfWriteSlotAllOps(
        ymfWriteSlotAllOps(
          ymfWriteSlotAllOps(
            ymfWriteSlotAllOps(
              ymfWriteSlotAllOps(
                ymfWriteSlotAllOps(S, "KSL", i, 0),
                "TL", i, 63),
              "AR", i, 15),
            "DR", i, 15),
          "SL", i, 0),
        "RR", i, 15),
      i, "KON", 0)

RECURSIVE ymfShutupFrom(_, _)
ymfShutupFrom(S, i) ==
    IF i >= ChannelCount THEN S ELSE ymfShutupFrom(ymfShutupOne(S, i), i + 1)

ymfShutup(S) == ymfShutupFrom(S, 0)

\* releaseMark adding flagFree to the flags the slot has
releaseMarkKeepFlags(S, slotID) ==
    [S EXCEPT !.now = @ + 1,
              !.slots[slotID].midiChannel = -1,
              !.slots[slotID].time = S.now + 1,
              !.slots[slotID].flags = @ \cup {flagFree}]

\* releaseSlot past writeFrequency: the slot is marked free at time.Now()
releaseMark(S, slotID) ==
    [S EXCEPT !.now = @ + 1,
              !.slots[slotID].midiChannel = -1,
              !.slots[slotID].time = S.now + 1,
              !.slots[slotID].flags = {flagFree}]

\* the writes of releaseSlot under "if killed"
releaseKill(S, slotID) ==
    ymfWriteSlotAllOps(
      ymfWriteSlotAllOps(
        ymfWriteSlotAllOps(
          ymfWriteSlotAllOps(S, "SL", slotID, 0),
          "RR", slotID, 15),
        "KSL", slotID, 0),
      "TL", slotID, 63)

releaseKilled(S, slotID, killed) ==
    IF killed THEN releaseKill(S, slotID) ELSE S

releaseSlot(S, slotID, killed) ==
    releaseKilled(
        releaseMark(writeFrequency(S, slotID, S.slots[slotID].realnote,
                                   S.slots[slotID].pitch, FALSE),
                    slotID),
        slotID, killed)

\* the flags occupySlot gives a slot on a channel in state
occupyFlags(state) ==
    IF modThresh <= state.modulation THEN {flagVibrato} ELSE {}

\* the note occupySlot plays: the drum key of a drum voice, 2 semitones up and
\* an octave down
occupyNote(instr, note) ==
    (IF instr.DrumNote # 0 THEN instr.FmVoice.DrumKey ELSE note) + 2 - 12

\* occupySlot up to the slot's fields
occupyFields(S, slotID, midich, note, velocity, ref, state, realnote) ==
    [S EXCEPT !.now = @ + 1,
              !.slots[slotID] =
                  [midiChannel |-> midich, note |-> note,
                   realnote |-> realnote, flags |-> occupyFlags(state),
                   finetune |-> 0, pitch |-> 0 + state.pitch,
                   velocity |-> velocity, instrument |-> ref,
                   time |-> S.now + 1]]

\* occupyWrites with the frequency and key-on written before the velocity
occupyWritesKeyFirst(S, slotID, velocity, instr, state, realnote) ==
    ymfWriteVelocity(
      writeFrequency(
        WriteChannel(
          WriteChannel(
            WriteChannel(
              writeModulation(ymfWriteInstrument(S, slotID, instr),
                              slotID, instr,
                              flagVibrato \in occupyFlags(state)),
              slotID, "CHPAN", state.pan),
            slotID, "VOLUME", state.volume),
          slotID, "EXPRESSION", state.expression),
        slotID, realnote, 0 + state.pitch, TRUE),
      slotID, velocity, instr)

\* occupySlot from ymfWriteInstrument on
occupyWrites(S, slotID, velocity, instr, state, realnote) ==
    writeFrequency(
      ymfWriteVelocity(
        WriteChannel(
          WriteChannel(
            WriteChannel(
              writeModulation(ymfWriteInstrument(S, slotID, instr),
                              slotID, instr,
                              flagVibrato \in occupyFlags(state)),
              slotID, "CHPAN", state.pan),
            slotID, "VOLUME", state.volume),
          slotID, "EXPRESSION", state.expression),
        slotID, velocity, instr),
      slotID, realnote, 0 + state.pitch, TRUE)

occupyWith(S, slotID, midich, note, velocity, ref, instr, state, realnote) ==
    occupyWrites(occupyFields(S, slotID, midich, note, velocity, ref, state,
                              realnote),
                 slotID, velocity, instr, state, realnote)

occupySlot(S, slotID, midich, note, velocity, ref) ==
    occupyWith(S, slotID, midich, note, velocity, ref, instrOf(ref),
               S.midi[midich], occupyNote(instrOf(ref), note))

RECURSIVE releaseSustainFrom(_, _, _)
releaseSustainFrom(S, midich, i) ==
    IF i >= ChannelCount THEN S
    ELSE releaseSustainFrom(
             IF S.slots[i].midiChannel = midich
                /\ flagSustain \in S.slots[i].flags
             THEN releaseSlot(S, i, FALSE) ELSE S,
             midich, i + 1)

releaseSustain(S, midich) == releaseSustainFrom(S, midich, 0)

\* the first loop of findFreeSlot: the first free slot, -1 if there is none
RECURSIVE firstFree(_, _)
firstFree(S, i) ==
    IF i >= ChannelCount THEN -1
    ELSE IF flagFree \in S.slots[i].flags THEN i
    ELSE firstFree(S, i + 1)

\* the second loop of findFreeSlot: the first slot with the earliest time
\* before oldesttime, -1 if there is none
RECURSIVE oldestFrom(_, _, _, _)
oldestFrom(S, i, oldest, oldesttime) ==
    IF i >= ChannelCount THEN oldest
    ELSE IF S.slots[i].time < oldesttime
    THEN oldestFrom(S, i + 1, i, S.slots[i].time)
    ELSE oldestFrom(S, i + 1, oldest, oldesttime)

\* findFreeSlot past the second loop
stealSlot(S, oldest) ==
    IF 0 <= oldest
    THEN [S |-> releaseSlot(S, oldest, TRUE), id |-> oldest]
    ELSE [S |-> S, id |-> -1]

\* findOldest taking the first slot for the oldest
findOldestFirst(S) == stealSlot(S, 0)

\* findFreeSlot past the first loop, the clock read
findOldest(S) == stealSlot(S, oldestFrom(S, 0, -1, S.now))

\* findFree stealing a slot though one is free
findFreeSteal(S, free) == findOldest(timeNow(S))

findFree(S, free) ==
    IF 0 <= free THEN [S |-> S, id |-> free] ELSE findOldest(timeNow(S))

\* findFreeSlot: the state afterwards and the slot found
findFreeSlot(S, midich, note) == findFree(S, firstFree(S, 0))

\* all programs of the libraries, as <<library, program>>
programRefs ==
    UNION {{<<l, q>> : q \in 1..Len(libraries[l].Programs)} :
              l \in 1..Len(libraries)}

\* the condition under which getInstrument returns program p
matches(p, s, note) ==
    /\ p.Pc = s.pc
    /\ p.BankLsb = s.bankLSB
    /\ p.BankMsb = s.bankMSB
    /\ ~(p.DrumNote # 0 /\ p.DrumNote # note)

\* the first of hits in the order of the libraries, nil if there is none
firstRef(hits) ==
    IF hits = {} THEN nil
    ELSE CHOOSE r \in hits :
             \A o \in hits : r[1] < o[1] \/ (r[1] = o[1] /\ r[2] <= o[2])

\* the first program of the libraries that matches, nil if none does
matching(s, note) ==
    firstRef({r \in programRefs : matches(instrOf(r), s, note)})

\* getInstrument: the state afterwards, the instrument and the found flag
RECURSIVE getInstrument(_, _, _)
getInstrumentHit(S, midich, note, hit) ==
    IF hit # nil THEN [S |-> S, instr |-> hit, ok |-> TRUE]
    ELSE IF S.midi[midich].bankMSB = 125 /\ S.midi[midich].pc # 1
    THEN getInstrument([S EXCEPT !.midi[midich].pc = 1], midich, note)
    ELSE [S |-> S, instr |-> <<1, 1>>, ok |-> FALSE]

getInstrument(S, midich, note) ==
    getInstrumentHit(S, midich, note, matching(S.midi[midich], note))

(***************************************************************************)
(* controller.go: the MIDI events.                                         *)
(***************************************************************************)
RECURSIVE BitAnd(_, _)
BitAnd(a, b) ==
    IF a = 0 \/ b = 0 THEN 0
    ELSE (a % 2) * (b % 2) + 2 * BitAnd(a \div 2, b \div 2)

RECURSIVE BitOr(_, _)
BitOr(a, b) ==
    IF a = 0 THEN b ELSE IF b = 0 THEN a
    ELSE (IF a % 2 = 1 \/ b % 2 = 1 THEN 1 ELSE 0)
         + 2 * BitOr(a \div 2, b \div 2)

RECURSIVE NoteOffFrom(_, _, _, _, _)
NoteOffFrom(S, c, note, sus, i) ==
    IF i >= ChannelCount THEN S
    ELSE NoteOffFrom(
             IF S.slots[i].midiChannel = c /\ S.slots[i].note = note
             THEN IF sus < 64
                  THEN releaseSlot(S, i, FALSE)
                  ELSE [S EXCEPT !.slots[i].flags = @ \cup {flagSustain}]
             ELSE S,
             c, note, sus, i + 1)

\* NoteOff taking the pedal to be up
NoteOffPedalUp(S, c, note) == NoteOffFrom(S, c, note, 0, 0)

NoteOff(S, c, note) == NoteOffFrom(S, c, note, S.midi[c].sustain, 0)

\* NoteOn with the slot found
noteOnSlot(f, c, note, velocity, ref) ==
    IF 0 <= f.id THEN occupySlot(f.S, f.id, c, note, velocity, ref) ELSE f.S

\* NoteOn with the instrument looked up
noteOnInstr(g, c, note, velocity) ==
    IF ~g.ok THEN g.S
    ELSE IF instrOf(g.instr).VoiceType # "FM" THEN g.S
    ELSE noteOnSlot(findFreeSlot(g.S, c, note), c, note, velocity, g.instr)

NoteOn(S, c, note, velocity) ==
    IF velocity = 0 THEN NoteOff(S, c, note)
    ELSE noteOnInstr(getInstrument(S, c, note), c, note, velocity)

\* slot.time = time.Now()
touchSlot(S, i) ==
    [S EXCEPT !.now = @ + 1, !.slots[i].time = S.now + 1]

\* the flags case ccModulation gives a slot
vibratoFlags(flags, value) ==
    IF modThresh <= value
    THEN flags \cup {flagVibrato} ELSE flags \ {flagVibrato}

\* case ccModulation on one slot, from "if slot.flags != flags" on
modulateSlot(S, i, old, new, value) ==
    IF new # old
    THEN writeModulation([S EXCEPT !.slots[i].flags = new], i,
                         instrOf(S.slots[i].instrument), modThresh <= value)
    ELSE S

\* the loop of case ccModulation
RECURSIVE ccModulationFrom(_, _, _, _)
ccModulationFrom(S, midich, value, i) ==
    IF i >= ChannelCount THEN S
    ELSE ccModulationFrom(
             IF S.slots[i].midiChannel = midich
             THEN modulateSlot(touchSlot(S, i), i, S.slots[i].flags,
                               vibratoFlags(S.slots[i].flags, value), value)
             ELSE S,
             midich, value, i + 1)

\* the loops of case ccVolume, ccExpression and ccPan
RECURSIVE ccMirrorFrom(_, _, _, _, _)
ccMirrorFrom(S, midich, reg, value, i) ==
    IF i >= ChannelCount THEN S
    ELSE ccMirrorFrom(
             IF S.slots[i].midiChannel = midich
             THEN WriteChannel(touchSlot(S, i), i, reg, value)
             ELSE S,
             midich, reg, value, i + 1)

\* the loop of case ccNotesOff
RECURSIVE ccNotesOffFrom(_, _, _)
ccNotesOffFrom(S, midich, i) ==
    IF i >= ChannelCount THEN S
    ELSE ccNotesOffFrom(
             IF S.slots[i].midiChannel = midich
             THEN IF S.midi[midich].sustain < 64
                  THEN releaseSlot(S, i, FALSE)
                  ELSE [S EXCEPT !.slots[i].flags = @ \cup {flagSustain}]
             ELSE S,
             midich, i + 1)

\* the loop of case ccSoundsOff
RECURSIVE ccSoundsOffFrom(_, _, _)
ccSoundsOffFrom(S, midich, i) ==
    IF i >= ChannelCount THEN S
    ELSE ccSoundsOffFrom(
             IF S.slots[i].midiChannel = midich
             THEN releaseSlot(S, i, FALSE) ELSE S,
             midich, i + 1)

\* case ccSustainPedal past the assignment
sustainRelease(S, midich, value) ==
    IF value < 64 THEN releaseSustain(S, midich) ELSE S

\* dataEntryHi with the selected parameter not looked at
dataEntryHiAnyRPN(S, midich, value) ==
    [S EXCEPT !.midi[midich].pitchSens =
        uint16(uint16(value) * 100 + (S.midi[midich].pitchSens % 100))]

\* case ccDataEntryHi
dataEntryHi(S, midich, value) ==
    IF S.midi[midich].rpn = 0
    THEN [S EXCEPT !.midi[midich].pitchSens =
             uint16(uint16(value) * 100 + (S.midi[midich].pitchSens % 100))]
    ELSE S

\* case ccDataEntryLo
dataEntryLo(S, midich, value) ==
    IF S.midi[midich].rpn = 0
    THEN [S EXCEPT !.midi[midich].pitchSens =
             uint16(uint16(value)
                    + uint16(uint16(S.midi[midich].pitchSens \div 100) * 100))]
    ELSE S

ControlChange(S, midich, cc, value) ==
    CASE cc = ccBankMSB -> [S EXCEPT !.midi[midich].bankMSB = uint8(value)]
      [] cc = ccBankLSB -> [S EXCEPT !.midi[midich].bankLSB = uint8(value)]
      [] cc = ccModulation ->
           ccModulationFrom([S EXCEPT !.midi[midich].modulation = uint8(value)],
                            midich, value, 0)
      [] cc = ccVolume ->
           ccMirrorFrom([S EXCEPT !.midi[midich].volume = uint8(value)],
                        midich, "VOLUME", value, 0)
      [] cc = ccExpression ->
           ccMirrorFrom([S EXCEPT !.midi[midich].expression = uint8(value)],
                        midich, "EXPRESSION", value, 0)
      [] cc = ccPan ->
           ccMirrorFrom([S EXCEPT !.midi[midich].pan = uint8(value)],
                        midich, "CHPAN", value, 0)
      [] cc = ccSustainPedal ->
           sustainRelease([S EXCEPT !.midi[midich].sustain = uint8(value)],
                          midich, value)
      [] cc = ccNotesOff -> ccNotesOffFrom(S, midich, 0)
      [] cc = ccSoundsOff -> ccSoundsOffFrom(S, midich, 0)
      [] cc = ccRPNHi ->
           [S EXCEPT !.midi[midich].rpn =
               BitOr(BitAnd(S.midi[midich].rpn, 127), uint16(uint16(value) * 128))]
      [] cc = ccRPNLo ->
           [S EXCEPT !.midi[midich].rpn =
               BitOr(BitAnd(S.midi[midich].rpn, 16256), uint16(value))]
      [] cc = ccNRPNLo \/ cc = ccNRPNHi ->
           [S EXCEPT !.midi[midich].rpn = 16383]
      [] cc = ccDataEntryHi -> dataEntryHi(S, midich, value)
      [] cc = ccDataEntryLo -> dataEntryLo(S, midich, value)
      [] OTHER -> S

ProgramChange(S, midich, pc) == [S EXCEPT !.midi[midich].pc = uint8(pc)]

\* bendPitch without the centre of the bend taken off
bendPitchOffCentre(S, midich, l, h) ==
    TruncDiv((h * 128 + l) * S.midi[midich].pitchSens + 64 * 25600, 25600)

\* the pitch PitchBend computes from the bend and the sensitivity
bendPitch(S, midich, l, h) ==
    TruncDiv((h * 128 + l - 8192) * S.midi[midich].pitchSens + 64 * 25600,
             25600)

RECURSIVE PitchBendFrom(_, _, _, _)
PitchBendFrom(S, midich, pitch, i) ==
    IF i >= ChannelCount THEN S
    ELSE PitchBendFrom(
             IF S.slots[i].midiChannel = midich
             THEN writeFrequency(
                      [touchSlot(S, i) EXCEPT
                          !.slots[i].pitch = S.slots[i].finetune + pitch],
                      i, S.slots[i].realnote,
                      S.slots[i].finetune + pitch, TRUE)
             ELSE S,
             midich, pitch, i + 1)

PitchBend(S, midich, l, h) ==
    PitchBendFrom([S EXCEPT !.midi[midich].pitch =
                                int8(bendPitch(S, midich, l, h))],
                  midich, bendPitch(S, midich, l, h), 0)

\* resetMIDIChannel with the sustain pedal left as it is
resetMIDIChannelKeepPedal(S, midich) ==
    [S EXCEPT !.midi[midich].volume = 100,
              !.midi[midich].expression = 127,
              !.midi[midich].pitch = 64,
              !.midi[midich].rpn = 16383,
              !.midi[midich].pitchSens = 200]

resetMIDIChannel(S, midich) ==
    [S EXCEPT !.midi[midich].volume = 100,
              !.midi[midich].expression = 127,
              !.midi[midich].sustain = 0,
              !.midi[midich].pitch = 64,
              !.midi[midich].rpn = 16383,
              !.midi[midich].pitchSens = 200]

RECURSIVE resetAllMIDIChannelsFrom(_, _)
resetAllMIDIChannelsFrom(S, i) ==
    IF i >= MidiChannelCount THEN S
    ELSE resetAllMIDIChannelsFrom(resetMIDIChannel(S, i), i + 1)

resetAllMIDIChannels(S) == resetAllMIDIChannelsFrom(S, 0)

RECURSIVE releaseAllSlotsFrom(_, _)
releaseAllSlotsFrom(S, i) ==
    IF i >= ChannelCount THEN S
    ELSE releaseAllSlotsFrom(
             IF flagFree \notin S.slots[i].flags
             THEN releaseSlot(S, i, TRUE) ELSE S,
             i + 1)

releaseAllSlots(S) == releaseAllSlotsFrom(S, 0)

Reset(S) ==
    resetAllMIDIChannels(releaseAllSlots(ymfShutup(
              [S EXCEPT
                !.slots = [i \in SlotIDs |->
                             [midiChannel |-> -1, note |-> 0, flags |-> {},
                              realnote |-> 0, finetune |-> 0, pitch |-> 0,
                              velocity |-> 0, instrument |-> nil,
                              time |-> 0]],
                !.midi = [m \in MidiChs |->
                             [S.midi[m] EXCEPT !.volume = 100, !.pan = 64]]])))

\* Chip.Next: the sum of the channels' frames, channel by channel
RECURSIVE ChipNextFrom(_, _, _)
chipNextAdd(S, i, acc, r) ==
    ChipNextFrom([S EXCEPT !.chip[i] = r.ch], i + 1,
                 <<acc[1] + r.out[1], acc[2] + r.out[2]>>)

ChipNextFrom(S, i, acc) ==
    IF i >= ChannelCount THEN [S |-> S, out |-> acc]
    ELSE chipNextAdd(S, i, acc, next(S.chip[i]))

ChipNext(S) == ChipNextFrom(S, 0, <<0, 0>>)

(***************************************************************************)
(* The controller and its chip as a state machine.                         *)
(***************************************************************************)
\* the controller's state at the start of an event, the write log empty
Cur == [slots |-> slots, midi |-> midi, chip |-> chip, writes |-> <<>>,
        now |-> now]

\* the event ends in state S
Commit(S) ==
    /\ slots' = S.slots
    /\ midi' = S.midi
    /\ chip' = S.chip
    /\ writes' = S.writes
    /\ now' = S.now

InitCtrl ==
    /\ slots = NewController.slots
    /\ midi = NewController.midi
    /\ chip = NewController.chip
    /\ writes = NewController.writes
    /\ now = NewController.now

EvNoteOn(c, note, velocity) ==
    /\ Commit(NoteOn(Cur, c, note, velocity))
    /\ ev' = [op |-> "NoteOn", a |-> <<c, note, velocity>>, was |-> <<>>]
    /\ out' = <<>> /\ calls' = <<>>

EvNoteOff(c, note) ==
    /\ Commit(NoteOff(Cur, c, note))
    /\ ev' = [op |-> "NoteOff", a |-> <<c, note>>, was |-> <<>>]
    /\ out' = <<>> /\ calls' = <<>>

\* the data entries so far: the latest values of ccDataEntryHi and of
\* ccDataEntryLo that channel c received with parameter 0 selected, in the
\* run of control changes of c that this one continues; -1 for none
entered(c, cc, value, old) ==
    IF midi[c].rpn # 0 THEN old
    ELSE IF cc = ccDataEntryHi THEN <<value, old[2]>>
    ELSE IF cc = ccDataEntryLo THEN <<old[1], value>>
    ELSE old

enteredSoFar(c) ==
    IF ev.op = "ControlChange" /\ ev.a[1] = c THEN ev.was ELSE <<-1, -1>>

EvControlChange(c, cc, value) ==
    /\ Commit(ControlChange(Cur, c, cc, value))
    /\ ev' = [op |-> "ControlChange", a |-> <<c, cc, value>>,
              was |-> entered(c, cc, value, enteredSoFar(c))]
    /\ out' = <<>> /\ calls' = <<>>

EvProgramChange(c, pc) ==
    /\ Commit(ProgramChange(Cur, c, pc))
    /\ ev' = [op |-> "ProgramChange", a |-> <<c, pc>>, was |-> <<>>]
    /\ out' = <<>> /\ calls' = <<>>

EvPitchBend(c, l, h) ==
    /\ Commit(PitchBend(Cur, c, l, h))
    /\ ev' = [op |-> "PitchBend", a |-> <<c, l, h>>, was |-> <<>>]
    /\ out' = <<>> /\ calls' = <<>>

EvReset ==
    /\ Commit(Reset(Cur))
    /\ ev' = [op |-> "Reset", a |-> <<>>, was |-> <<>>]
    /\ out' = <<>> /\ calls' = <<>>

EvChipNextTo(r) ==
    /\ Commit(r.S)
    /\ out' = r.out
    /\ ev' = [op |-> "Next", a |-> <<>>, was |-> <<>>]
    /\ calls' = <<>>

EvChipNext == EvChipNextTo(ChipNext(Cur))

(***************************************************************************)
(* ymfConvertVelocity applied to every total level and velocity.           *)
(***************************************************************************)
InitVel == vin = <<0, 0>> /\ vout = -1

EvConvertVelocity ==
    /\ vout = -1
    /\ vout' = ymfConvertVelocity(vin[1], vin[2])
    /\ UNCHANGED <<vin, ev>>

(***************************************************************************)
(* The specifications.                                                     *)
(***************************************************************************)
InitEv == ev = [op |-> "init", a |-> <<>>, was |-> <<>>]

Init == InitChan /\ InitCtrl /\ InitVel /\ InitEv

\* the channel, all eight algorithms, no feedback
NextChan ==
    \/ \E v \in Algs : ChSetALG(v)
    \/ \E v \in {0, 1} : ChSetKON(v)
    \/ \E v \in {0, 1} : ChSetFNUM(v)
    \/ ChNext

SpecChan == Init /\ [][NextChan /\ UNCHANGED <<ctrlVars, velVars>>]_vars

\* the channel with feedback on operators 1 and 3
NextFb ==
    \/ \E v \in {0, 4} : ChSetALG(v)
    \/ \E v \in {0, 1} : ChSetKON(v)
    \/ ChSetFNUM(1)
    \/ \E i \in {0, 2} : ChSetFB(i, 1)
    \/ ChNext

SpecFb == Init /\ [][NextFb /\ UNCHANGED <<ctrlVars, velVars>>]_vars

\* feedback on operator 1 switched on and off while the channel sounds
NextStale ==
    \/ \E v \in {0, 1} : ChSetKON(v)
    \/ ChSetFNUM(1)
    \/ ChSetALG(0)
    \/ \E v \in {0, 1} : ChSetFB(0, v)
    \/ ChNext

SpecStale == Init /\ [][NextStale /\ UNCHANGED <<ctrlVars, velVars>>]_vars

\* a programmed channel keyed on and off
KeyWrites ==
    {<<"BLOCK", 3>>, <<"BO", 2>>, <<"PANPOT", 10>>, <<"CHPAN", 20>>,
     <<"VOLUME", 50>>, <<"EXPRESSION", 60>>, <<"VELOCITY", 90>>, <<"LFO", 2>>}

NextKey ==
    \/ ChSetALG(5)
    \/ \E v \in {0, 1} : ChSetKON(v)
    \/ ChSetFNUM(1)
    \/ \E w \in KeyWrites : ChWriteChannel(w[1], w[2])
    \/ ChNext

SpecKey == Init /\ [][NextKey /\ UNCHANGED <<ctrlVars, velVars>>]_vars

\* every algorithm keyed on and rendered, with and without feedback
NextRoute ==
    \/ \E v \in Algs : ChSetALG(v)
    \/ ChSetKON(1)
    \/ ChSetFNUM(1)
    \/ \E i \in {0, 2} : ChSetFB(i, 1)
    \/ ChNext

SpecRoute == Init /\ [][NextRoute /\ UNCHANGED <<ctrlVars, velVars>>]_vars

\* the pan registers written with values in and out of their ranges
PanValues == {-200, -1, 0, 15, 16, 31, 64, 127, 128, 500}

NextPan ==
    \/ \E v \in PanValues : ChSetCHPAN(v)
    \/ \E v \in PanValues : ChSetPANPOT(v)

SpecPan == Init /\ [][NextPan /\ UNCHANGED <<ctrlVars, velVars>>]_vars

\* notes, the sustain pedal and Reset
Notes == {60, 61}

NextCtrl ==
    \/ \E c \in MidiChs, n \in Notes, v \in {0, 100} : EvNoteOn(c, n, v)
    \/ \E c \in MidiChs, n \in Notes : EvNoteOff(c, n)
    \/ \E c \in MidiChs, v \in {0, 127} : EvControlChange(c, ccSustainPedal, v)
    \/ EvReset

SpecCtrl ==
    Init /\ [][NextCtrl /\ now' <= MaxClock /\ UNCHANGED <<ch, velVars>>]_vars

\* notes taking slots, free or not, over a longer time
NextSteal ==
    \/ \E c \in MidiChs, n \in Notes : EvNoteOn(c, n, 100)
    \/ \E c \in MidiChs, n \in Notes : EvNoteOff(c, n)
    \/ EvReset

SpecSteal ==
    Init /\ [][NextSteal /\ now' <= MaxStealClock
                /\ UNCHANGED <<ch, velVars>>]_vars

\* a note played, bent and silenced while the chip renders
NextPlay ==
    \/ EvNoteOn(0, 60, 100)
    \/ EvPitchBend(0, 0, 96)
    \/ EvReset
    \/ EvChipNext

SpecPlay ==
    Init /\ [][NextPlay /\ now' <= MaxClock /\ UNCHANGED <<ch, velVars>>]_vars

\* pitch bend and its sensitivity
NextBend ==
    \/ \E c \in MidiChs : EvNoteOn(c, 60, 100)
    \/ \E e \in {<<ccRPNHi, 0>>, <<ccRPNLo, 0>>, <<ccDataEntryHi, 12>>,
                 <<ccDataEntryLo, 0>>, <<ccNRPNLo, 0>>} :
          EvControlChange(0, e[1], e[2])
    \/ \E h \in {32, 64, 96} : EvPitchBend(0, 0, h)
    \/ EvReset

SpecBend ==
    Init /\ [][NextBend /\ now' <= MaxClock /\ UNCHANGED <<ch, velVars>>]_vars

\* the selection of a registered parameter and its data entry; a
\* ccDataEntryLo of 100 or more raises pitchSens by 100 every time, so the
\* steps stop at MaxSens
RpnEvents ==
    ({ccRPNHi, ccRPNLo} \X {0, 120})
        \cup ({ccNRPNLo, ccNRPNHi} \X {0})
        \cup ({ccDataEntryHi} \X {0, 1})
        \cup ({ccDataEntryLo} \X {0, 120})

NextRpn ==
    \/ \E e \in RpnEvents : EvControlChange(0, e[1], e[2])
    \/ EvReset

SpecRpn ==
    Init /\ [][NextRpn /\ now' <= MaxClock /\ midi'[0].pitchSens <= MaxSens
                /\ UNCHANGED <<ch, velVars>>]_vars

\* a note under the controllers that Reset restores
ResetEvents ==
    {<<ccModulation, 64>>, <<ccSustainPedal, 127>>, <<ccVolume, 50>>,
     <<ccPan, 0>>}

\* the slots of channel c all hold an instrument; case ccModulation
\* dereferences the instrument of each of them
instrumentsSet(c) ==
    \A i \in SlotIDs : slots[i].midiChannel = c => slots[i].instrument # nil

NextReset ==
    \/ EvNoteOn(0, 60, 100)
    \/ EvNoteOff(0, 60)
    \/ \E e \in ResetEvents :
          /\ e[1] = ccModulation => instrumentsSet(0)
          /\ EvControlChange(0, e[1], e[2])
    \/ EvPitchBend(0, 0, 96)
    \/ EvReset

SpecReset ==
    Init /\ [][NextReset /\ now' <= MaxClock /\ UNCHANGED <<ch, velVars>>]_vars

\* every kind of event on one MIDI channel, notes on both
FreeEvents ==
    {<<ccModulation, 64>>, <<ccModulation, 0>>, <<ccSustainPedal, 127>>,
     <<ccSustainPedal, 0>>, <<ccVolume, 100>>, <<ccExpression, 127>>,
     <<ccPan, 64>>}

NextFree ==
    \/ \E c \in MidiChs : EvNoteOn(c, 60, 100)
    \/ \E c \in MidiChs : EvNoteOff(c, 60)
    \/ \E e \in FreeEvents :
          /\ e[1] = ccModulation => instrumentsSet(0)
          /\ EvControlChange(0, e[1], e[2])
    \/ EvProgramChange(0, 1)
    \/ EvPitchBend(0, 0, 96)
    \/ EvReset

SpecFree ==
    Init /\ [][NextFree /\ now' <= MaxClock /\ UNCHANGED <<ch, velVars>>]_vars

\* notes on programs and banks, some of them without a voice that plays
NextSkip ==
    \/ \E v \in {0, 125} : EvControlChange(0, ccBankMSB, v)
    \/ \E pc \in {0, 1, 2} : EvProgramChange(0, pc)
    \/ \E n \in Notes : EvNoteOn(0, n, 100)
    \/ EvReset

SpecSkip ==
    Init /\ [][NextSkip /\ now' <= MaxClock /\ UNCHANGED <<ch, velVars>>]_vars

\* ymfConvertVelocity over its whole domain
InitVelAll ==
    /\ InitChan /\ InitCtrl /\ InitEv
    /\ vin \in (0..63) \X (0..127)
    /\ vout = -1

SpecVel ==
    InitVelAll /\ [][EvConvertVelocity /\ UNCHANGED <<chanVars, ctrlVars>>]_vars

(***************************************************************************)
(* The properties.                                                         *)
(***************************************************************************)
\* the carriers of each algorithm as the channel's contract lists them,
\* operators counted from 1
carrierTable ==
    << {2}, {1, 2}, {1, 2, 3, 4}, {4}, {4}, {2, 4}, {1, 4}, {1, 3, 4} >>

\* every carrier of channel c's algorithm is in stage Off
carriersOff(c) ==
    \A i \in carrierTable[c.alg + 1] : c.operators[i].stage = stageOff

\* every operator of channel c is in stage Off
allOff(c) == \A i \in OpIdx : c.operators[i].stage = stageOff

\* C1: a pull on a channel whose carriers are all Off returns (0, 0),
\* evaluates no operator and leaves every operator as it was; and the
\* operators of a channel leave Off by a key-on only, so that a channel never
\* keyed on returns (0, 0) on every pull
C1_EarlyExit ==
    [][/\ (ev'.op = "next" /\ carriersOff(ch)) =>
              /\ out' = <<0, 0>>
              /\ calls' = <<>>
              /\ ch'.operators = ch.operators
       /\ (allOff(ch) /\ ~(ev'.op = "setKON" /\ ev'.a[1] # 0)) => allOff(ch')
      ]_vars

\* a pull has returned (0, 0) by the early exit while an operator that is no
\* carrier was still sounding
C1_Witness ==
    /\ ev.op = "next"
    /\ out = <<0, 0>>
    /\ calls = <<>>
    /\ carriersOff(ch)
    /\ ~allOff(ch)

\* a step is setALG with the algorithm the channel already has
sameALG == ev'.op = "setALG" /\ ev'.a[1] = ch.alg

\* a step is setALG with another algorithm than the channel has
otherALG == ev'.op = "setALG" /\ ev'.a[1] # ch.alg

\* the state C6 is about: the feedback lines, the LFO phase and every
\* operator's phase and envelope
soundState(c) ==
    <<c.feedback1Prev, c.feedback1Curr, c.feedback3Prev, c.feedback3Curr,
      c.feedbackOut1, c.feedbackOut3, c.modIndexFrac64,
      [i \in OpIdx |-> <<c.operators[i].phase, c.operators[i].stage,
                         c.operators[i].level>>]>>

\* C6, as stated: setALG with the channel's current algorithm changes neither
\* the feedback lines, nor the LFO phase, nor any operator's phase or envelope
C6_NoOp == [][sameALG => soundState(ch') = soundState(ch)]_vars

\* C6, amended: setALG with the channel's current algorithm sets
\* feedback1Prev, feedback1Curr, feedback3Prev and feedback3Curr to 0 and
\* leaves feedbackOut1, feedbackOut3, the LFO phase and every operator's
\* phase and envelope as they were; of the rest of the channel it writes the
\* operators' isModulator only
C6_ZeroesFeedbackOnly ==
    [][sameALG =>
          ch' = [ch EXCEPT
                    !.feedback1Prev = 0, !.feedback1Curr = 0,
                    !.feedback3Prev = 0, !.feedback3Curr = 0,
                    !.operators =
                        [i \in OpIdx |->
                            [ch.operators[i] EXCEPT !.isModulator =
                                ModulatorMatrix(ch.alg, i - 1)]]]]_vars

\* setALG with the current algorithm has zeroed a feedback line that was
\* running: its output is still there, the operators are still sounding
C6_Witness ==
    /\ ev.op = "setALG"
    /\ ev.a[1] = ev.was[1]
    /\ ev.was[2] # 0
    /\ ch.feedback1Curr = 0
    /\ ch.feedbackOut1 # 0
    /\ ~allOff(ch)

\* C7: setALG with another algorithm leaves the feedback lines at 0 (prev,
\* curr and out of both), the LFO phase at 0, every operator's phase at 0
\* and envelope Off at level 0, and each operator's isModulator equal to the
\* modulator matrix's entry for the new algorithm
C7_ResetsOnChange ==
    [][otherALG =>
          /\ ch'.alg = ev'.a[1]
          /\ ch'.feedback1Prev = 0 /\ ch'.feedback1Curr = 0
          /\ ch'.feedback3Prev = 0 /\ ch'.feedback3Curr = 0
          /\ ch'.feedbackOut1 = 0 /\ ch'.feedbackOut3 = 0
          /\ ch'.modIndexFrac64 = 0
          /\ \A i \in OpIdx :
                /\ ch'.operators[i].phase = 0
                /\ ch'.operators[i].stage = stageOff
                /\ ch'.operators[i].level = 0
                /\ ch'.operators[i].isModulator
                       = ModulatorMatrix(ev'.a[1], i - 1)]_vars

\* setALG has changed the algorithm of a channel both of whose feedback
\* lines were running
C7_Witness ==
    /\ ev.op = "setALG"
    /\ ev.a[1] # ev.was[1]
    /\ ev.was[2] # 0
    /\ ev.was[3] # 0
    /\ ch.alg = ev.a[1]
    /\ ch.feedbackOut1 = 0

\* the elements of a sequence
Range(seq) == {seq[k] : k \in 1..Len(seq)}

envState(c) ==
    [i \in OpIdx |-> <<c.operators[i].phase, c.operators[i].stage,
                       c.operators[i].level>>]

\* C8: setKON with a value other than 0 on a channel that is keyed on
\* changes nothing of it, so no operator's phase or envelope, and kon stays
\* 1; and PitchBend, which writes KON=1 again for every slot bound to its
\* MIDI channel, leaves the phase and envelope of every operator of such a
\* slot's channel, if keyed on, as they were, and kon at 1
C8_NoRetrigger ==
    /\ [](\A c \in SlotIDs :
             chip[c].kon # 0 =>
                 /\ setKON(chip[c], 1) = chip[c]
                 /\ chip[c].kon = 1)
    /\ [][ev'.op = "PitchBend" =>
             \A i \in SlotIDs :
                 (slots[i].midiChannel = ev'.a[1] /\ chip[i].kon # 0) =>
                     /\ envState(chip'[i]) = envState(chip[i])
                     /\ chip'[i].kon = 1]_vars

\* PitchBend has bent a note that was sounding: its operators are past the
\* attack and away from phase 0, where a key-on would have put them
C8_Witness ==
    /\ ev.op = "PitchBend"
    /\ \E i \in SlotIDs :
          /\ slots[i].midiChannel = ev.a[1]
          /\ slots[i].note = 60
          /\ slots[i].pitch = 96
          /\ chip[i].kon = 1
          /\ \E o \in OpIdx :
                /\ chip[i].operators[o].phase # 0
                /\ chip[i].operators[o].level > 0
                /\ chip[i].operators[o].stage # stageAttack

\* C9, as stated: at velocity 127 ymfConvertVelocity returns the total
\* level it is given, at velocity 0 it returns 0x3f
C9_Identity ==
    vout # -1 =>
        /\ vin[2] = 127 => vout = vin[1]
        /\ vin[2] = 0 => vout = 63

\* C9, amended: at velocity 127 ymfConvertVelocity returns the total level
\* it is given plus 1, and 0x3f for 0x3f; at velocity 0 it returns 0x3f
C9_OneStepDown ==
    vout # -1 =>
        /\ vin[2] = 127 => vout = IF vin[1] < 63 THEN vin[1] + 1 ELSE 63
        /\ vin[2] = 0 => vout = 63

\* ymfConvertVelocity has been applied to a total level below 0x3f at
\* velocity 127
C9_Witness == vin = <<10, 127>> /\ vout = 11

\* the state after CC101=0, CC100=0, CC6=12, CC38=0 on MIDI channel c
afterRPN0(S, c) ==
    ControlChange(
        ControlChange(
            ControlChange(ControlChange(S, c, ccRPNHi, 0), c, ccRPNLo, 0),
            c, ccDataEntryHi, 12),
        c, ccDataEntryLo, 0)

\* a step is PitchBend(c, 0, h) with sensitivity sens on slot i, bound to c
bends(i, h, sens) ==
    /\ ev'.op = "PitchBend"
    /\ ev'.a[2] = 0
    /\ ev'.a[3] = h
    /\ midi[ev'.a[1]].pitchSens = sens
    /\ slots[i].midiChannel = ev'.a[1]

\* after the step slot i is semis semitones off its note: its pitch is its
\* finetune + 64 + 32 a semitone, and the FNUM and BLOCK written for it are
\* those of the note semis semitones away, unbent
bentBy(i, semis) ==
    /\ slots'[i].pitch = slots[i].finetune + 64 + 32 * semis
    /\ <<"ch", i, "FNUM", fnumBlock(slots[i].realnote + semis, 64).fnum>>
           \in Range(writes')
    /\ <<"ch", i, "BLOCK", fnumBlock(slots[i].realnote + semis, 64).block>>
           \in Range(writes')

\* C10: with pitchSens = 200, PitchBend(c, 0, h) puts every slot bound to c
\* 0 semitones off for h = 0x40, +1 for h = 0x60 and -1 for h = 0x20; the
\* sequence CC101=0, CC100=0, CC6=12, CC38=0 makes pitchSens 1200 from any
\* state, and with pitchSens = 1200, PitchBend(c, 0, 0x60) puts every slot
\* bound to c +6 semitones off
C10_BendScaling ==
    /\ [](\A c \in MidiChs : afterRPN0(Cur, c).midi[c].pitchSens = 1200)
    /\ [][\A i \in SlotIDs :
             /\ bends(i, 64, 200) => bentBy(i, 0)
             /\ bends(i, 96, 200) => bentBy(i, 1)
             /\ bends(i, 32, 200) => bentBy(i, -1)
             /\ bends(i, 96, 1200) => bentBy(i, 6)]_vars

\* a sounding note has been bent by h = 0x60 at the sensitivity the four
\* control changes set
C10_Witness ==
    /\ ev.op = "PitchBend"
    /\ ev.a = <<0, 0, 96>>
    /\ midi[0].pitchSens = 1200
    /\ midi[0].rpn = 0
    /\ \E i \in SlotIDs :
          /\ slots[i].midiChannel = 0
          /\ slots[i].note = 60
          /\ slots[i].pitch = 64 + 6 * 32

\* a step is a note-off of (c, n): NoteOff, or NoteOn with velocity 0
noteOffStep ==
    \/ ev'.op = "NoteOff"
    \/ ev'.op = "NoteOn" /\ ev'.a[3] = 0

\* a step is ControlChange(c, 64, v) with v < 0x40
pedalUpStep ==
    /\ ev'.op = "ControlChange"
    /\ ev'.a[2] = ccSustainPedal
    /\ ev'.a[3] < 64

\* the number of KON=0 writes to channel i in the sequence ws
konOffs(ws, i) ==
    Cardinality({k \in 1..Len(ws) : ws[k] = <<"ch", i, "KON", 0>>})

\* C3: while the sustain value of MIDI channel c is >= 0x40, a note-off of
\* (c, n) writes no register, sets flagSustain on every slot bound to (c, n)
\* and changes nothing else of any slot; ControlChange(c, 64, v) with
\* v < 0x40 frees every slot of c that carries flagSustain with one KON=0
\* write each, and neither changes nor writes to any other slot
C3_SustainDefers ==
    [][/\ (noteOffStep /\ midi[ev'.a[1]].sustain >= 64) =>
              /\ writes' = <<>>
              /\ \A i \in SlotIDs :
                    slots'[i] =
                        IF /\ slots[i].midiChannel = ev'.a[1]
                           /\ slots[i].note = ev'.a[2]
                        THEN [slots[i] EXCEPT !.flags = @ \cup {flagSustain}]
                        ELSE slots[i]
       /\ pedalUpStep =>
              \A i \in SlotIDs :
                  IF /\ slots[i].midiChannel = ev'.a[1]
                     /\ flagSustain \in slots[i].flags
                  THEN /\ slots'[i].flags = {flagFree}
                       /\ slots'[i].midiChannel = -1
                       /\ konOffs(writes', i) = 1
                  ELSE /\ slots'[i] = slots[i]
                       /\ \A k \in 1..Len(writes') : writes'[k][2] # i
      ]_vars

\* the pedal has come up on a channel with a sustained slot, now free with
\* its KON=0 written, and with a slot still bound to a note that was not
\* sustained
C3_Witness ==
    /\ ev.op = "ControlChange"
    /\ ev.a[2] = ccSustainPedal
    /\ ev.a[3] < 64
    /\ \E i, j \in SlotIDs :
          /\ i # j
          /\ konOffs(writes, i) = 1
          /\ slots[i].flags = {flagFree}
          /\ slots[j].midiChannel = ev.a[1]
          /\ slots[j].note \in Notes
          /\ flagSustain \notin slots[j].flags

\* a step is a NoteOn of a voice that plays: velocity above 0, an FM program
\* found for it
playableNoteOn ==
    /\ ev'.op = "NoteOn"
    /\ ev'.a[3] > 0
    /\ getInstrument(Cur, ev'.a[1], ev'.a[2]).ok
    /\ instrOf(getInstrument(Cur, ev'.a[1], ev'.a[2]).instr).VoiceType = "FM"

\* the slots that have flagFree
freeSlots == {i \in SlotIDs : flagFree \in slots[i].flags}

\* the slots' times are distinct
distinctTimes ==
    \A i, j \in SlotIDs : i # j => slots[i].time # slots[j].time

\* the slot touched longest ago
oldestSlot ==
    CHOOSE i \in SlotIDs : \A j \in SlotIDs : slots[i].time <= slots[j].time

\* the kill of channel i: SL=0, RR=15, KSL=0, TL=0x3f, each on operators
\* 0..3
killWrites(i) ==
    [k \in 1..16 |->
        <<"op", i, (k - 1) % 4,
          <<"SL", "RR", "KSL", "TL">>[((k - 1) \div 4) + 1],
          <<0, 15, 0, 63>>[((k - 1) \div 4) + 1]>>]

\* ws holds the kill of channel i somewhere
killedIn(ws, i) ==
    \E k \in 1..Len(ws) :
        k + 15 <= Len(ws) /\ SubSeq(ws, k, k + 15) = killWrites(i)

\* C4: when no slot has flagFree and the slots' times are distinct, a
\* NoteOn(c, n) of a voice that plays writes, first of all, to the slot
\* touched longest ago: its frequency with KON=0, then its kill; it binds
\* that slot to (c, n) and changes no other slot
C4_StealsOldest ==
    [][(playableNoteOn /\ freeSlots = {} /\ distinctTimes) =>
          /\ Len(writes') >= 19
          /\ writes'[1][2] = oldestSlot /\ writes'[1][3] = "FNUM"
          /\ writes'[2][2] = oldestSlot /\ writes'[2][3] = "BLOCK"
          /\ writes'[3] = <<"ch", oldestSlot, "KON", 0>>
          /\ SubSeq(writes', 4, 19) = killWrites(oldestSlot)
          /\ \A k \in 1..Len(writes') : writes'[k][2] = oldestSlot
          /\ slots'[oldestSlot].midiChannel = ev'.a[1]
          /\ slots'[oldestSlot].note = ev'.a[2]
          /\ flagFree \notin slots'[oldestSlot].flags
          /\ \A j \in SlotIDs \ {oldestSlot} : slots'[j] = slots[j]
      ]_vars

\* a NoteOn has stolen slot 1 from a sounding note, killed it and bound it
\* to the new note, while slot 0, touched later, holds its note
C4_Witness ==
    /\ ev.op = "NoteOn"
    /\ ev.a[3] > 0
    /\ Len(writes) >= 19
    /\ writes[1][1] = "ch" /\ writes[1][3] = "FNUM" /\ writes[1][4] # 0
    /\ writes[3] = <<"ch", 1, "KON", 0>>
    /\ SubSeq(writes, 4, 19) = killWrites(1)
    /\ slots[1].midiChannel = ev.a[1]
    /\ slots[1].note = ev.a[2]
    /\ slots[0].note \in Notes
    /\ flagFree \notin slots[0].flags
    /\ slots[0].time < slots[1].time

\* C5: when a slot has flagFree, a NoteOn(c, n) of a voice that plays binds
\* the first such slot to (c, n) without flagFree, writes to that slot only,
\* neither KON=0 nor a kill, and changes no other slot nor its channel
C5_PrefersFree ==
    [][(playableNoteOn /\ freeSlots # {}) =>
          \E f \in freeSlots :
              /\ \A g \in freeSlots : f <= g
              /\ slots'[f].midiChannel = ev'.a[1]
              /\ slots'[f].note = ev'.a[2]
              /\ flagFree \notin slots'[f].flags
              /\ writes' # <<>>
              /\ \A k \in 1..Len(writes') : writes'[k][2] = f
              /\ konOffs(writes', f) = 0
              /\ ~killedIn(writes', f)
              /\ \A j \in SlotIDs \ {f} :
                    slots'[j] = slots[j] /\ chip'[j] = chip[j]
      ]_vars

\* a NoteOn has taken the free slot 1, with no KON=0, while slot 0 holds its
\* note
C5_Witness ==
    /\ ev.op = "NoteOn"
    /\ ev.a[3] > 0
    /\ slots[1].midiChannel = ev.a[1]
    /\ slots[1].note = ev.a[2]
    /\ slots[1].time = now
    /\ konOffs(writes, 1) = 0
    /\ writes # <<>>
    /\ slots[0].note \in Notes
    /\ slots[0].midiChannel \in MidiChs
    /\ flagFree \notin slots[0].flags

\* C11: while parameter 0 is selected on a channel, its pitchSens is
\* 100 times the latest ccDataEntryHi value plus the latest ccDataEntryLo
\* value, whatever the order in which the two arrived
C11_DataEntry ==
    \A c \in MidiChs :
        (/\ ev.op = "ControlChange" /\ ev.a[1] = c
         /\ midi[c].rpn = 0
         /\ ev.was[1] >= 0 /\ ev.was[2] >= 0)
        => midi[c].pitchSens = ev.was[1] * 100 + ev.was[2]

\* the step is ControlChange(c, cc, _) with cc among ccs
ccStep(c, ccs) ==
    ev'.op = "ControlChange" /\ ev'.a[1] = c /\ ev'.a[2] \in ccs

\* C12: a data entry on a channel whose selected parameter is not 0 leaves
\* pitchSens as it was; Reset and every ccNRPNLo or ccNRPNHi select 0x3fff;
\* the selection becomes 0 only by ccRPNHi = 0 or ccRPNLo = 0 completing a
\* pair, and each half of it changes only by its own controller, by an
\* NRPN message or by Reset
C12_DataEntryNeedsRPN0 ==
    [][\A c \in MidiChs :
          /\ (ccStep(c, {ccDataEntryHi, ccDataEntryLo}) /\ midi[c].rpn # 0)
                => midi'[c].pitchSens = midi[c].pitchSens
          /\ ev'.op = "Reset" => midi'[c].rpn = 16383
          /\ ccStep(c, {ccNRPNLo, ccNRPNHi}) => midi'[c].rpn = 16383
          /\ (midi[c].rpn # 0 /\ midi'[c].rpn = 0) =>
                /\ ccStep(c, {ccRPNHi, ccRPNLo}) /\ ev'.a[3] = 0
                /\ ev'.a[2] = ccRPNHi => midi[c].rpn % 128 = 0
                /\ ev'.a[2] = ccRPNLo => midi[c].rpn \div 128 = 0
          /\ midi'[c].rpn % 128 # midi[c].rpn % 128 =>
                ev'.op = "Reset" \/ ccStep(c, {ccRPNLo, ccNRPNLo, ccNRPNHi})
          /\ midi'[c].rpn \div 128 # midi[c].rpn \div 128 =>
                ev'.op = "Reset" \/ ccStep(c, {ccRPNHi, ccNRPNLo, ccNRPNHi})
      ]_vars

\* a ccDataEntryHi of 1 has arrived with 0x3fff selected after a Reset
\* and pitchSens is still 200
C12_Witness ==
    /\ ev = [op |-> "ControlChange", a |-> <<0, ccDataEntryHi, 1>>,
             was |-> <<-1, -1>>]
    /\ midi[0].rpn = 16383
    /\ midi[0].pitchSens = 200

\* the writes that program a voice: the channel registers of the instrument
\* and of the MIDI channel, and the velocity
programs(w) ==
    \/ w[1] = "tl"
    \/ w[1] = "ch" /\ w[3] \in {"ALG", "LFO", "PANPOT", "BO", "CHPAN",
                                 "VOLUME", "EXPRESSION"}

\* the channel registers written among ws
chanRegs(ws) == {ws[k][3] : k \in {j \in 1..Len(ws) : ws[j][1] = "ch"}}

\* the number of writes of kind in ws from index k on
kindCount(ws, kind, k) ==
    Cardinality({j \in k..Len(ws) : ws[j][1] = kind})

\* the writes of a stealing NoteOn up to the end of the kill, none otherwise
killEnd == IF freeSlots = {} THEN 19 ELSE 0

\* C13: the writes of a NoteOn of a voice that plays end with FNUM, BLOCK
\* and KON=1 to the slot it binds, and no other write is a KON=1; the
\* operator writes, ALG, LFO, PANPOT, BO, CHPAN, VOLUME, EXPRESSION and the
\* four velocity writes are all there before them; a KON=0 occurs only
\* when a slot is stolen, as the third write, followed by the kill, and the
\* writes that program the voice all come after the kill
C13_KeyOnLast ==
    [][playableNoteOn =>
          LET ws == writes'
              n == Len(writes')
              s == writes'[Len(writes')][2]
          IN /\ n >= killEnd + 3
             /\ ws[n] = <<"ch", s, "KON", 1>>
             /\ ws[n - 1][1] = "ch" /\ ws[n - 1][3] = "BLOCK"
             /\ ws[n - 2][1] = "ch" /\ ws[n - 2][3] = "FNUM"
             /\ slots'[s].midiChannel = ev'.a[1] /\ slots'[s].note = ev'.a[2]
             /\ \A k \in 1..(n - 1) :
                   /\ ws[k][2] = s
                   /\ ws[k] # <<"ch", s, "KON", 1>>
                   /\ ws[k] = <<"ch", s, "KON", 0>> => (k = 3 /\ killEnd = 19)
                   /\ programs(ws[k]) => k > killEnd
             /\ killEnd = 19 =>
                   (ws[3] = <<"ch", s, "KON", 0>>
                      /\ SubSeq(ws, 4, 19) = killWrites(s))
             /\ {"ALG", "LFO", "PANPOT", "BO", "CHPAN", "VOLUME",
                  "EXPRESSION"} \subseteq chanRegs(SubSeq(ws, 1, n - 3))
             /\ kindCount(SubSeq(ws, 1, n - 3), "tl", killEnd + 1) = 4
             /\ kindCount(SubSeq(ws, 1, n - 3), "op", killEnd + 1)
                   = 4 + 4 * Len(instrOpRegs) + 4
      ]_vars

\* a NoteOn has stolen slot 0 from a sounding note: its writes begin with
\* the KON=0 and the kill and end with the KON=1
C13_Witness ==
    /\ ev.op = "NoteOn" /\ ev.a[3] > 0
    /\ Len(writes) > 22
    /\ writes[1][1] = "ch" /\ writes[1][4] # 0
    /\ writes[3] = <<"ch", 0, "KON", 0>>
    /\ SubSeq(writes, 4, 19) = killWrites(0)
    /\ writes[Len(writes)] = <<"ch", 0, "KON", 1>>
    /\ \E k \in 20..Len(writes) : writes[k][1] = "tl"

\* C14: after Reset every slot is unbound with flagFree as its only flag;
\* every MIDI channel has volume 100, pan 64, expression 127, sustain 0,
\* pitch 64, rpn 0x3fff and pitchSens 200; every chip channel has been
\* written TL=0x3f, AR=15, DR=15 and RR=15 on its four operators and KON=0,
\* and is keyed off
C14_ResetDefaults ==
    ev.op = "Reset" =>
        /\ \A i \in SlotIDs :
              /\ slots[i].midiChannel = -1
              /\ slots[i].flags = {flagFree}
              /\ \A o \in 0..3 :
                    {<<"op", i, o, "TL", 63>>, <<"op", i, o, "AR", 15>>,
                     <<"op", i, o, "DR", 15>>, <<"op", i, o, "RR", 15>>}
                        \subseteq Range(writes)
              /\ <<"ch", i, "KON", 0>> \in Range(writes)
              /\ chip[i].kon = 0
              /\ \A o \in OpIdx : chip[i].operators[o].tl = 63
        /\ \A c \in MidiChs :
              /\ midi[c].volume = 100
              /\ midi[c].pan = 64
              /\ midi[c].expression = 127
              /\ midi[c].sustain = 0
              /\ midi[c].pitch = 64
              /\ midi[c].rpn = 16383
              /\ midi[c].pitchSens = 200

\* a Reset has come over a sounding note, its channel now in release, with
\* the modulation wheel up
C14_Witness ==
    /\ ev.op = "Reset"
    /\ midi[0].modulation >= modThresh
    /\ \E i \in SlotIDs, o \in OpIdx :
          chip[i].operators[o].stage = stageRelease
    /\ \A i \in SlotIDs : slots[i].flags = {flagFree}

\* a step is a NoteOn, velocity above 0, that is skipped: no program found
\* for it, or the program found is not an FM voice
skippedNoteOn ==
    /\ ev'.op = "NoteOn"
    /\ ev'.a[3] > 0
    /\ \/ ~getInstrument(Cur, ev'.a[1], ev'.a[2]).ok
       \/ instrOf(getInstrument(Cur, ev'.a[1], ev'.a[2]).instr).VoiceType
             # "FM"

\* C15: a skipped NoteOn writes no register and changes no slot and no
\* MIDI channel state
C15_SkippedNoOp ==
    [][skippedNoteOn =>
          writes' = <<>> /\ slots' = slots /\ midi' = midi /\ chip' = chip
      ]_vars

\* chpan + (panpot - 15) * 4 held to 0..127
panWanted ==
    LET raw == ch.chpan + (ch.panpot - 15) * 4
    IN IF raw <= 0 THEN 0 ELSE IF raw >= 127 THEN 127 ELSE raw

\* C17: whatever integers have been written to CHPAN and PANPOT, in any
\* order, the index into the pan table is chpan + (panpot - 15) * 4 held
\* to 0..127, and the two pan coefficients are the table's entry there
C17_PanSaturates ==
    /\ panIndex(ch) \in 0..127
    /\ panIndex(ch) = panWanted
    /\ ch.panCoefL = PanTable(panWanted)[1]
    /\ ch.panCoefR = PanTable(panWanted)[2]

\* a PANPOT of 31 has come on top of a CHPAN of 127: the index stays at 127
C17_Witness ==
    /\ ev = [op |-> "setPANPOT", a |-> <<31>>, was |-> <<>>]
    /\ ch.chpan = 127 /\ ch.panpot = 31
    /\ ch.chpan + (ch.panpot - 15) * 4 = 191
    /\ panIndex(ch) = 127

\* the topologies of the design document, operators counted from 1: the
\* operators each uses, in order
routeUsed(alg) == IF alg \in {0, 1} THEN <<1, 2>> ELSE <<1, 2, 3, 4>>

\* the operators whose outputs feed operator i
routeFeeds(alg, i) ==
    CASE alg = 0 /\ i = 2 -> {1}
      [] alg = 3 /\ i = 3 -> {2}
      [] alg = 3 /\ i = 4 -> {1, 3}
      [] alg = 4 /\ i \in {2, 3, 4} -> {i - 1}
      [] alg = 5 /\ i \in {2, 4} -> {i - 1}
      [] alg = 6 /\ i \in {3, 4} -> {i - 1}
      [] alg = 7 /\ i = 3 -> {2}
      [] OTHER -> {}

\* operator i is fed by its feedback line
routeFeedback(alg, i) == i = 1 \/ (i = 3 /\ alg \in {2, 5})

\* the sum of outs over the operators in set
sum4(outs, set) ==
    (IF 1 \in set THEN outs[1] ELSE 0) + (IF 2 \in set THEN outs[2] ELSE 0)
    + (IF 3 \in set THEN outs[3] ELSE 0) + (IF 4 \in set THEN outs[4] ELSE 0)

\* the outputs of the evaluations logged in cs, each made on the operator
\* of c it names with the inputs logged
routeOuts(c, cs) ==
    [k \in 1..4 |->
        IF k <= Len(cs)
        THEN opNext(c.operators[cs[k][1] + 1], cs[k][2], cs[k][3]).out
        ELSE 0]

\* the modulator input of operator i under the topology
routeIn(c, outs, i) ==
    IF routeFeedback(c.alg, i)
    THEN (IF i = 1 THEN c.feedbackOut1 ELSE c.feedbackOut3)
    ELSE IF routeFeeds(c.alg, i) = {} THEN noModulator
    ELSE sum4(outs, routeFeeds(c.alg, i)) * ModulatorMultiplier

\* a pull of channel c that logged the evaluations cs, gave the frame o and
\* left the channel as d, went by the topology
routed(c, cs, outs, o, d) ==
    /\ Len(cs) = Len(routeUsed(c.alg))
    /\ \A k \in 1..Len(cs) :
          /\ cs[k][1] + 1 = routeUsed(c.alg)[k]
          /\ cs[k][3] = routeIn(c, outs, k)
          /\ d.operators[k] = opNext(c.operators[k], cs[k][2], cs[k][3]).op
    /\ \A i \in OpIdx : i > Len(cs) => d.operators[i] = c.operators[i]
    /\ o = <<sum4(outs, carrierTable[c.alg + 1]) * c.attenuationCoef
                * c.panCoefL,
             sum4(outs, carrierTable[c.alg + 1]) * c.attenuationCoef
                * c.panCoefR>>

\* C18: a pull that does not exit early evaluates the operators its
\* topology uses, once each and in order; operator 1, and operator 3 in
\* algorithms 2 and 5, get their feedback line's out as it was before the
\* pull; an operator fed by others gets the sum of their outputs of this
\* pull times ModulatorMultiplier, any other gets noModulator; the frame is
\* the sum of the carriers' outputs, attenuated and panned
C18_Routing ==
    [][(ev'.op = "next" /\ ~carriersOff(ch)) =>
          routed(ch, calls', routeOuts(ch, calls'), out', ch')
      ]_vars

\* a pull in algorithm 5 has fed operator 3 its feedback line and
\* operators 2 and 4 the outputs of operators 1 and 3, none of them 0, and
\* given a frame that is not silent
C18_Witness ==
    /\ ev.op = "next"
    /\ ch.alg = 5
    /\ Len(calls) = 4
    /\ calls[2][3] # 0 /\ calls[3][3] # 0 /\ calls[4][3] # 0
    /\ out # <<0, 0>>

\* operator i feeds another operator under the topology of alg
routeModulator(alg, i) == \E j \in OpIdx : i \in routeFeeds(alg, j)

\* the feedback lines of channel c hold nothing
feedbackClear(c) ==
    /\ c.feedback1Prev = 0 /\ c.feedback1Curr = 0
    /\ c.feedback3Prev = 0 /\ c.feedback3Curr = 0
    /\ c.feedbackOut1 = 0 /\ c.feedbackOut3 = 0

\* C19: an operation that leaves the channel with another algorithm than it
\* had leaves the feedback lines at zero and each operator's isModulator
\* equal to its entry of the new algorithm's modulator matrix
C19_AlgChangeResets ==
    [][ch'.alg # ch.alg =>
          /\ feedbackClear(ch')
          /\ \A i \in OpIdx :
                ch'.operators[i].isModulator = routeModulator(ch'.alg, i)
      ]_vars

\* the operators of channel c after a key-off: those not Off in Release, if
\* the channel was keyed
keyedOffOps(c) ==
    [i \in OpIdx |->
        IF c.kon = 0 \/ c.operators[i].stage = stageOff
        THEN c.operators[i]
        ELSE [c.operators[i] EXCEPT !.stage = stageRelease]]

\* channel d has the defaults in every register
atDefaults(d) ==
    /\ d.midiChannelID = -1 /\ d.fnum = 0 /\ d.kon = 0 /\ d.block = 0
    /\ d.alg = 0 /\ d.panpot = 15 /\ d.chpan = 64 /\ d.volume = 100
    /\ d.expression = 127 /\ d.velocity = 0 /\ d.bo = 1
    /\ d.lfoFrequency = LFOFrequency(0)

\* the programmed registers of channel c
programmed(c) ==
    <<c.alg, c.fnum, c.block, c.bo, c.panpot, c.chpan, c.volume,
      c.expression, c.velocity>>

\* setKON(0) took channel c to channel d as the contract has it
keyedOff(c, d) ==
    IF \A i \in carrierTable[c.alg + 1] : keyedOffOps(c)[i].stage = stageOff
    THEN atDefaults(d)
    ELSE /\ d.operators = keyedOffOps(c)
         /\ d.kon = 0
         /\ programmed(d) = programmed(c)

\* C20: setKON(0) keys off the operators of a keyed channel; if every
\* carrier of the algorithm is then Off the channel's registers are at their
\* defaults, otherwise the programmed registers keep their values and kon
\* is 0
C20_KeyOffResets ==
    [][(ev'.op = "setKON" /\ ev'.a = <<0>>) => keyedOff(ch, ch')]_vars

\* setKON(0) has reset a channel that had algorithm 5 and volume 50
C20_Witness ==
    /\ ev.op = "setKON" /\ ev.a = <<0>>
    /\ ev.was = <<5, 50>>
    /\ ch.alg = 0 /\ ch.volume = 100

\* setKON(0) has keyed off a sounding channel, which keeps algorithm 5 and
\* volume 50
C20_Kept ==
    /\ ev.op = "setKON" /\ ev.a = <<0>>
    /\ ev.was = <<5, 50>>
    /\ ch.alg = 5 /\ ch.volume = 50
    /\ \E i \in OpIdx : ch.operators[i].stage = stageRelease

\* every evaluation logged in cs was handed the modulation index m
indexed(cs, m) == \A k \in 1..Len(cs) : cs[k][2] = m

\* C21 as claimed: a pull advances the LFO phase by the channel's LFO
\* increment, and the modIndex it hands the operators is the top bits of the
\* phase already advanced
C21_IndexAfterAdvance ==
    [][ev'.op = "next" =>
          /\ ch'.modIndexFrac64 =
                (ch.modIndexFrac64 + ch.lfoFrequency) % FracModulus
          /\ indexed(calls', Shr(ch'.modIndexFrac64, ModTableIndexShift))
      ]_vars

\* C21 amended: a pull advances the LFO phase by the channel's LFO
\* increment, early exit or not, and the modIndex it hands the operators is
\* the top bits of the phase as it was before the advance
C21_IndexBeforeAdvance ==
    [][ev'.op = "next" =>
          /\ ch'.modIndexFrac64 =
                (ch.modIndexFrac64 + ch.lfoFrequency) % FracModulus
          /\ indexed(calls', Shr(ch.modIndexFrac64, ModTableIndexShift))
      ]_vars

\* a pull has evaluated operators with a modIndex that is not the top bits
\* of the phase it left behind
C21_Witness ==
    /\ ev.op = "next"
    /\ calls # <<>>
    /\ calls[1][2] # Shr(ch.modIndexFrac64, ModTableIndexShift)

\* C24: an operator whose feedbackCoef is 0 gets 0 from its feedback line:
\* a pull that evaluates operator 1 while its feedbackCoef is 0 hands it the
\* modulator input 0, and feedbackOut3 is 0 while operator 3's feedbackCoef
\* is 0
C24_NoFeedbackWithoutFB ==
    [][(ev'.op = "next" /\ calls' # <<>>) =>
          /\ ch.operators[1].feedbackCoef = 0 => calls'[1][3] = 0
          /\ ch.operators[3].feedbackCoef = 0 => ch.feedbackOut3 = 0
      ]_vars

\* C23: after PitchBend(c, l, h) the pitch stored for MIDI channel c is the
\* pitch the bend gave the slots bound to c, their finetune taken off
C23_StoredPitch ==
    ev.op = "PitchBend" =>
        \A i \in SlotIDs :
            slots[i].midiChannel = ev.a[1] =>
                slots[i].pitch - slots[i].finetune = midi[ev.a[1]].pitch

\* slot sl is free exactly when it is bound to no MIDI channel, and a free
\* slot is neither sustained nor in vibrato
freeOrBound(sl) ==
    /\ flagFree \in sl.flags <=> sl.midiChannel = -1
    /\ flagFree \in sl.flags =>
          flagSustain \notin sl.flags /\ flagVibrato \notin sl.flags

\* the step is an event addressed to a MIDI channel that takes no slot
channelStep ==
    ev'.op \in {"NoteOff", "ControlChange", "ProgramChange", "PitchBend"}

\* the step leaves slot i and its chip channel alone and writes none of
\* its registers
untouched(i) ==
    /\ slots'[i] = slots[i]
    /\ chip'[i] = chip[i]
    /\ \A k \in 1..Len(writes') : writes'[k][2] # i

\* C22: Reset leaves every slot free and bound to no channel; every event
\* keeps each slot free exactly when its midiChannel is -1, and a free slot
\* without flagSustain and flagVibrato; and NoteOff, ControlChange,
\* ProgramChange and PitchBend leave a free slot, its chip channel and its
\* registers alone
C22_FreeSlots ==
    /\ [](ev.op = "Reset" => \A i \in SlotIDs : freeOrBound(slots[i]))
    /\ [][(\A i \in SlotIDs : freeOrBound(slots[i])) =>
            /\ \A i \in SlotIDs : freeOrBound(slots'[i])
            /\ channelStep =>
                  \A i \in SlotIDs :
                      flagFree \in slots[i].flags => untouched(i)
        ]_vars

\* after a Reset one slot is free, the other bound, sustained and in
\* vibrato, and a control change has just written the bound slot's registers
C22_Witness ==
    /\ ev.op = "ControlChange"
    /\ \A i \in SlotIDs : freeOrBound(slots[i])
    /\ \E i, j \in SlotIDs :
          /\ flagFree \in slots[i].flags
          /\ slots[j].midiChannel = 0
          /\ {flagSustain, flagVibrato} \subseteq slots[j].flags
          /\ writes # <<>>

====
